---------------------------- MODULE Spec2Model ----------------------------
(***************************************************************************)
(* Model of obsidian-vault-backup (src/src/vault_backup).                  *)
(*                                                                         *)
(* Components, each with its own specification over the shared variables:  *)
(*   SpecDetect   restore.detect_source             (pure function)        *)
(*   SpecIgnore   DebouncedHandler._should_ignore   (pure function)        *)
(*   SpecDebounce DebouncedHandler + threading.Timer threads + cancel()    *)
(*   SpecRestore  RestoreHandler._handle_restore / _get_file_content       *)
(*   SpecBackup   backup.run_backup and the steps it calls                 *)
(*                                                                         *)
(* Text is modelled as a sequence of atoms; an atom is a character or a    *)
(* fixed run of characters ("vault", ".git") none of which is a prefix or  *)
(* suffix of another, so str.startswith / str.endswith are prefix / suffix *)
(* of atom sequences.                                                      *)
(***************************************************************************)
EXTENDS Integers, Sequences, FiniteSets, TLC

VARIABLES
    ds_source,          \* detect_source: the identifier passed in
    ds_result,          \* detect_source: the returned tag ("none" before the call)
    ig_path,            \* _should_ignore: the path passed in
    ig_called,          \* _should_ignore: TRUE once the call has returned
    ig_result,          \* _should_ignore: the returned boolean
    \* --- restore.group_entries_by_directory ---
    gr_entries,         \* the flat entry list passed in
    gr_prefix,          \* the prefix passed in
    gr_pc,              \* "init", "once" (projected) or "twice" (projected again)
    gr_result,          \* group_entries_by_directory(gr_entries, gr_prefix)
    gr_again,           \* group_entries_by_directory(gr_result, gr_prefix)
    \* --- restore._parse_git_log ---
    gl_records,         \* the commits git log prints
    gl_called,          \* TRUE once _parse_git_log has returned
    gl_result,          \* the list _parse_git_log returned
    \* --- restore.restic_ls ---
    ls_rc,              \* exit code of `restic ls --json`
    ls_lines,           \* its standard output, line by line
    ls_path,            \* the path argument
    ls_result,          \* the list returned or the exception raised
    \* --- restore.restic_snapshots ---
    sn_rc,              \* exit code of `restic snapshots --json`
    sn_stdout,          \* its standard output
    sn_result,          \* the list returned or the exception raised
    \* --- restore.git_diff_file ---
    gd_commit,          \* the commit argument
    gd_filepath,        \* the filepath argument
    gd_pc,              \* "init", "fallback" or "done"
    gd_calls,           \* the git commands run, in order, with their answers
    gd_result,          \* the text returned
    \* --- the state markers and their readers in health.py ---
    mk_bool,            \* the boolean last written to pending_changes
    mk_stamp,           \* the time last written to the timestamp marker
    mk_pending_file,    \* state_dir / "pending_changes"
    mk_stamp_file,      \* state_dir / "last_change", "last_commit" or "last_backup"
    mk_read,            \* what _read_bool and _read_timestamp returned
    \* --- DebouncedHandler and its threads ---
    now,                \* time.time(), in whole seconds
    debounce_seconds,   \* DebouncedHandler.debounce_seconds
    last_event_time,    \* DebouncedHandler._last_event_time
    timer,              \* DebouncedHandler._timer: 0 (None) or a timer id
    pending,            \* DebouncedHandler._pending
    event_count,        \* DebouncedHandler._event_count
    lock,               \* DebouncedHandler._lock: "free" or the holder
    tstate,             \* threading.Timer threads: state of each timer
    tdeadline,          \* threading.Timer threads: start time + interval
    tborn,              \* per timer: number of cancel() calls returned when it was started
    obs_pc,             \* observer thread: position inside _schedule_backup
    was_pending,        \* observer thread: local was_pending
    last_change,        \* state_dir / "last_change"
    pending_changes,    \* state_dir / "pending_changes"
    evTimes,            \* history: _last_event_time of every scheduled event
    callLog,            \* history: one record per on_changes invocation
    cancels,            \* history: number of cancel() calls that have returned
    cb_raised,          \* history: the timers whose on_changes call raised
    batchLog,           \* history: _last_event_time of every event that found
                        \* _pending false
    dropped,            \* history: on_any_event has returned at once for an event
    \* --- RestoreHandler (one request) ---
    git_has,            \* environment: `git show source:path` finds the file
    restic_has,         \* environment: `restic dump source path` finds the file
    rq_kind,            \* "none", "restore", "preview", "download", "files" or "log"
    rq_source,          \* the request's source parameter
    rq_path,            \* the request's path parameter
    rq_pc,              \* "idle", "git", "restic", "done", or "raised" when an
                        \* exception left the handler
    rq_target,          \* _handle_restore: the resolved target (segments)
    rq_cmds,            \* external commands run for the request, in order
    rq_raised,          \* whose FileNotFoundError left the content lookup, or the
                        \* exception that left the handler
    rq_status,          \* HTTP status sent (0: none yet)
    rq_responses,       \* number of responses sent for the request
    rq_body,            \* what the response carries
    fs_dirs,            \* directories created by mkdir(parents=True)
    fs_files,           \* files written by write_text
    \* --- run_backup (one run) ---
    dry_run,            \* config.dry_run
    bk_now,             \* datetime.now(UTC).timestamp(), whole seconds
    bk_pc,              \* "idle", "stage", "commit", "snapshot", "prune" or "done"
    bk_dirty,           \* what has_changes returned: "unknown", "clean" or "dirty"
    bk_staged,          \* get_changed_files returned a non-empty list
    bk_stats,           \* git_commit: local stats
    commit_success,     \* run_backup: local commit_success
    changes_summary,    \* run_backup: local changes_summary
    bk_commit_rc,       \* exit code of `git commit` (-1: not run)
    bk_cmds,            \* external commands run, in order
    bk_result,          \* the BackupResult returned, or the exception raised
    last_commit,        \* state_dir / "last_commit"
    last_backup,        \* state_dir / "last_backup"
    bk_old,             \* history: the two markers when the run started
    bk_hist             \* history: exit codes of the commands run (-1: not run;
                        \* reset is `git reset HEAD` of a dry run),
                        \* calls of restic_prune, what restic_backup returned

groupVars == <<gr_entries, gr_prefix, gr_pc, gr_result, gr_again>>
gitlogVars == <<gl_records, gl_called, gl_result>>
lsVars == <<ls_rc, ls_lines, ls_path, ls_result>>
snapVars == <<sn_rc, sn_stdout, sn_result>>
diffVars == <<gd_commit, gd_filepath, gd_pc, gd_calls, gd_result>>
markerVars == <<mk_bool, mk_stamp, mk_pending_file, mk_stamp_file, mk_read>>
parseVars == <<groupVars, gitlogVars, lsVars, snapVars, diffVars, markerVars>>
pureVars == <<ds_source, ds_result, ig_path, ig_called, ig_result, parseVars>>
handlerVars == <<last_event_time, timer, pending, event_count, lock>>
timerVars == <<tstate, tdeadline, tborn>>
fileVars == <<last_change, pending_changes>>
debounceVars == <<now, debounce_seconds, handlerVars, timerVars, obs_pc, was_pending,
                  fileVars, evTimes, callLog, cancels, cb_raised, batchLog,
                  dropped>>
restoreVars == <<git_has, restic_has, rq_kind, rq_source, rq_path, rq_pc, rq_target,
                 rq_cmds, rq_raised, rq_status, rq_responses, rq_body, fs_dirs, fs_files>>
backupVars == <<dry_run, bk_now, bk_pc, bk_dirty, bk_staged, bk_stats, commit_success,
                changes_summary, bk_commit_rc, bk_cmds, bk_result, last_commit,
                last_backup, bk_old, bk_hist>>
notDebounceVars == <<pureVars, restoreVars, backupVars>>
notRestoreVars == <<pureVars, debounceVars, backupVars>>
notBackupVars == <<pureVars, debounceVars, restoreVars>>
vars == <<pureVars, debounceVars, restoreVars, backupVars>>

--------------------------------------------------------------------------
(* Text helpers                                                            *)

\* s.startswith(p)
StartsWith(s, p) ==
    /\ Len(p) <= Len(s)
    /\ \A i \in 1..Len(p) : s[i] = p[i]

\* s.endswith(p)
EndsWith(s, p) ==
    /\ Len(p) <= Len(s)
    /\ \A i \in 1..Len(p) : s[Len(s) - Len(p) + i] = p[i]

\* All sequences over S of length lo..hi
SeqsOf(S, lo, hi) == UNION { [1..n -> S] : n \in lo..hi }

\* str.split("/") restricted to non-empty pieces, as a sequence of segments
RECURSIVE SplitSlash(_)
SplitSlash(s) ==
    IF s = << >> THEN << >>
    ELSE LET first == CHOOSE k \in 1..(Len(s) + 1) :
                         /\ (k = Len(s) + 1 \/ s[k] = "/")
                         /\ \A j \in 1..(k - 1) : s[j] # "/"
             head  == SubSeq(s, 1, first - 1)
             rest  == IF first > Len(s) THEN << >> ELSE SubSeq(s, first + 1, Len(s))
         IN  IF head = << >> THEN SplitSlash(rest) ELSE <<head>> \o SplitSlash(rest)

--------------------------------------------------------------------------
(* restore.detect_source                                                   *)

MaxIdLen == 42

HexChars == {"0", "1", "2", "3", "4", "5", "6", "7", "8", "9",
             "a", "b", "c", "d", "e", "f"}
FillChars == {"a", "7"}
OtherChars == {"g", "A"}

\* An identifier of n characters c, with the k-th one replaced by b (k = 0: none)
Ident(n, c, k, b) == [i \in 1..n |-> IF i = k THEN b ELSE c]

Identifiers ==
    { Ident(n, c, 0, c) : n \in 0..MaxIdLen, c \in FillChars }
    \cup UNION { { Ident(n, c, k, b) : k \in 1..n, c \in FillChars, b \in OtherChars }
                 : n \in 1..MaxIdLen }

\* all(c in "0123456789abcdef" for c in source)
AllHex(source) == \A i \in 1..Len(source) : source[i] \in HexChars

\* detect_source with the lower length limit taken as exclusive
detect_source_Excl7(source) ==
    IF Len(source) = 40 /\ AllHex(source) THEN "git"
    ELSE IF Len(source) = 8 /\ AllHex(source) THEN "ambiguous"
    ELSE IF AllHex(source) /\ 7 < Len(source) /\ Len(source) <= 40 THEN "git"
    ELSE "restic"

\* detect_source with the length test alone deciding the third branch
detect_source_LengthOnly(source) ==
    IF Len(source) = 40 /\ AllHex(source) THEN "git"
    ELSE IF Len(source) = 8 /\ AllHex(source) THEN "ambiguous"
    ELSE IF 7 <= Len(source) /\ Len(source) <= 40 THEN "git"
    ELSE "restic"

\* detect_source, lines 361-367
detect_source(source) ==
    IF Len(source) = 40 /\ AllHex(source) THEN "git"
    ELSE IF Len(source) = 8 /\ AllHex(source) THEN "ambiguous"
    ELSE IF AllHex(source) /\ 7 <= Len(source) /\ Len(source) <= 40 THEN "git"
    ELSE "restic"

DetectInit ==
    /\ ds_source \in Identifiers
    /\ ds_result = "none"

DetectIdle ==
    /\ ds_source = << >>
    /\ ds_result = "none"

--------------------------------------------------------------------------
(* DebouncedHandler._should_ignore                                         *)

MaxPathAtoms == 5

PathAtoms == {"/", ".git", ".trash", ".obsidian", "workspace.json",
              "workspace-mobile.json", "x"}

IGNORE_SEGMENTS == { <<".git">>, <<".trash">> }
IGNORE_PATHS == { <<".obsidian", "/", "workspace.json">>,
                  <<".obsidian", "/", "workspace-mobile.json">> }

\* Paths as watchdog reports them: absolute, no empty segment, no trailing "/"
EventPaths ==
    { p \in SeqsOf(PathAtoms, 2, MaxPathAtoms) :
        /\ p[1] = "/"
        /\ p[Len(p)] # "/"
        /\ \A i \in 1..(Len(p) - 1) : ~(p[i] = "/" /\ p[i + 1] = "/") }

\* Path(path).parts without the root part
PathParts(path) == SplitSlash(path)

InParts(segment, parts) == \E i \in 1..Len(parts) : parts[i] = segment

\* _should_ignore, lines 58-67
should_ignore(path) ==
    \/ \E segment \in IGNORE_SEGMENTS : InParts(segment, PathParts(path))
    \/ \E ignore_path \in IGNORE_PATHS : EndsWith(path, ignore_path)

IgnoreInit ==
    /\ ig_path \in EventPaths
    /\ ig_called = FALSE
    /\ ig_result = FALSE

IgnoreIdle ==
    /\ ig_path = << >>
    /\ ig_called = FALSE
    /\ ig_result = FALSE

--------------------------------------------------------------------------
(* DebouncedHandler, the threading.Timer threads it starts, and cancel()   *)
(*                                                                         *)
(* Threads: the watchdog observer thread delivers events (on_any_event),   *)
(* the main thread calls cancel() (VaultWatcher.stop), and every           *)
(* threading.Timer is a thread of its own.  The clock unit is one second,  *)
(* the unit of debounce_seconds; the sections run under the lock are short *)
(* against it, so the clock does not advance while the lock is held.  A    *)
(* timer thread may wake up late and may wait for the lock.                *)

MaxEvents == 3
MaxTime == 4
Debounce == 2
MaxCancels == 2

Timers == 1..MaxEvents

\* A file of the state directory: missing, or holding a text
NoFile == [exists |-> FALSE, text |-> << >>]
FileOf(text) == [exists |-> TRUE, text |-> text]

Digit(d) == CASE d = 0 -> "0" [] d = 1 -> "1" [] d = 2 -> "2" [] d = 3 -> "3"
              [] d = 4 -> "4" [] d = 5 -> "5" [] d = 6 -> "6" [] d = 7 -> "7"
              [] d = 8 -> "8" [] d = 9 -> "9"

\* str(int(t)) for t >= 0
RECURSIVE DecStr(_)
DecStr(t) == IF t < 10 THEN <<Digit(t)>> ELSE DecStr(t \div 10) \o <<Digit(t % 10)>>

TextTrue == <<"t", "r", "u", "e">>
TextFalse == <<"f", "a", "l", "s", "e">>

\* Events the observer delivers: a directory flag and a source path
SamplePaths == { <<"/", "x">>, <<"/", ".git", "/", "x">>, <<"/", ".git", "x">>,
                 <<"/", ".obsidian", "/", "workspace.json">> }
Events == [is_directory : BOOLEAN, src_path : SamplePaths]

NumTimersStarted == Cardinality({ i \in Timers : tstate[i] # "unborn" })

DebounceInit ==
    /\ now = 0
    /\ debounce_seconds = Debounce
    /\ last_event_time = 0
    /\ timer = 0
    /\ pending = FALSE
    /\ event_count = 0
    /\ lock = "free"
    /\ tstate = [i \in Timers |-> "unborn"]
    /\ tdeadline = [i \in Timers |-> 0]
    /\ tborn = [i \in Timers |-> 0]
    /\ obs_pc = "idle"
    /\ was_pending = FALSE
    /\ last_change = NoFile
    /\ pending_changes = NoFile
    /\ evTimes = << >>
    /\ callLog = << >>
    /\ cancels = 0
    /\ cb_raised = {}
    /\ batchLog = << >>
    /\ dropped = FALSE

DebounceIdle ==
    /\ now = 0
    /\ debounce_seconds = 1
    /\ last_event_time = 0
    /\ timer = 0
    /\ pending = FALSE
    /\ event_count = 0
    /\ lock = "free"
    /\ tstate = [i \in Timers |-> "unborn"]
    /\ tdeadline = [i \in Timers |-> 0]
    /\ tborn = [i \in Timers |-> 0]
    /\ obs_pc = "idle"
    /\ was_pending = FALSE
    /\ last_change = NoFile
    /\ pending_changes = NoFile
    /\ evTimes = << >>
    /\ callLog = << >>
    /\ cancels = 0
    /\ cb_raised = {}
    /\ batchLog = << >>
    /\ dropped = FALSE

\* The clock advances by one second
Tick ==
    /\ lock = "free"
    /\ now < MaxTime
    /\ now' = now + 1
    /\ UNCHANGED <<debounce_seconds, handlerVars, timerVars, obs_pc, was_pending,
                   fileVars, evTimes, callLog, cancels, cb_raised,
                   batchLog, dropped, notDebounceVars>>

\* on_any_event counting every event it is given, dropped ones included
OnAnyEventDropped_Counted(event) ==
    /\ obs_pc = "idle"
    /\ event.is_directory \/ should_ignore(event.src_path)
    /\ lock = "free"
    /\ event_count' = event_count + 1
    /\ dropped' = TRUE
    /\ UNCHANGED <<now, debounce_seconds, last_event_time, timer, pending, lock,
                   timerVars, obs_pc, was_pending, fileVars, evTimes, callLog, cancels,
                   cb_raised, batchLog, notDebounceVars>>

\* on_any_event for a directory event or an ignored path: returns at once
OnAnyEventDropped(event) ==
    /\ obs_pc = "idle"
    /\ event.is_directory \/ should_ignore(event.src_path)
    /\ dropped' = TRUE
    /\ UNCHANGED <<now, debounce_seconds, handlerVars, timerVars, obs_pc, was_pending,
                   fileVars, evTimes, callLog, cancels, cb_raised,
                   batchLog, notDebounceVars>>

\* on_any_event -> _schedule_backup, lines 82-86: take the lock, set the flags
ScheduleBackupFlags(event) ==
    /\ obs_pc = "idle"
    /\ ~event.is_directory
    /\ ~should_ignore(event.src_path)
    /\ NumTimersStarted < MaxEvents
    /\ lock = "free"
    /\ lock' = "observer"
    /\ last_event_time' = now
    /\ was_pending' = pending
    /\ pending' = TRUE
    /\ event_count' = event_count + 1
    /\ obs_pc' = "files"
    /\ evTimes' = Append(evTimes, now)
    /\ batchLog' = IF pending THEN batchLog ELSE Append(batchLog, now)
    /\ UNCHANGED <<now, debounce_seconds, timer, timerVars, fileVars, callLog, cancels,
                   cb_raised, dropped, notDebounceVars>>

\* lines 89-95 with the markers written at every event
ScheduleBackupFiles_Always ==
    /\ obs_pc = "files"
    /\ last_change' = FileOf(DecStr(last_event_time))
    /\ pending_changes' = FileOf(TextTrue)
    /\ obs_pc' = "timer"
    /\ UNCHANGED <<now, debounce_seconds, handlerVars, timerVars, was_pending,
                   evTimes, callLog, cancels, cb_raised, batchLog, dropped, notDebounceVars>>

\* _schedule_backup, lines 89-95: the first event of a batch writes the markers
ScheduleBackupFiles ==
    /\ obs_pc = "files"
    /\ IF ~was_pending
       THEN /\ last_change' = FileOf(DecStr(last_event_time))
            /\ pending_changes' = FileOf(TextTrue)
       ELSE UNCHANGED fileVars
    /\ obs_pc' = "timer"
    /\ UNCHANGED <<now, debounce_seconds, handlerVars, timerVars, was_pending,
                   evTimes, callLog, cancels, cb_raised,
                   batchLog, dropped, notDebounceVars>>

\* a cancel() that leaves the timer thread waiting
TimerCancel_Ignored(ts, i) == ts

\* threading.Timer.cancel(): sets the finished event; a timer that is still
\* waiting exits without calling its function, any other timer is unaffected
TimerCancel(ts, i) ==
    IF i # 0 /\ ts[i] = "waiting" THEN [ts EXCEPT ![i] = "cancelled"] ELSE ts

\* lines 98-103 without the cancellation of the existing timer
ScheduleBackupTimer_NoCancel ==
    /\ obs_pc = "timer"
    /\ LET new == NumTimersStarted + 1
       IN  /\ tstate' = [tstate EXCEPT ![new] = "waiting"]
           /\ tdeadline' = [tdeadline EXCEPT ![new] = now + debounce_seconds]
           /\ tborn' = [tborn EXCEPT ![new] = cancels]
           /\ timer' = new
    /\ lock' = "free"
    /\ obs_pc' = "idle"
    /\ UNCHANGED <<now, debounce_seconds, last_event_time, pending, event_count,
                   was_pending, fileVars, evTimes, callLog, cancels, cb_raised,
                   batchLog, dropped, notDebounceVars>>

\* lines 98-103 starting a timer only when none is referenced
ScheduleBackupTimer_KeepExisting ==
    /\ obs_pc = "timer"
    /\ IF timer = 0
       THEN LET new == NumTimersStarted + 1
            IN  /\ tstate' = [tstate EXCEPT ![new] = "waiting"]
                /\ tdeadline' = [tdeadline EXCEPT ![new] = now + debounce_seconds]
                /\ tborn' = [tborn EXCEPT ![new] = cancels]
                /\ timer' = new
       ELSE UNCHANGED <<tstate, tdeadline, tborn, timer>>
    /\ lock' = "free"
    /\ obs_pc' = "idle"
    /\ UNCHANGED <<now, debounce_seconds, last_event_time, pending, event_count,
                   was_pending, fileVars, evTimes, callLog, cancels, cb_raised,
                   batchLog, dropped, notDebounceVars>>

\* _schedule_backup, lines 98-103: cancel the existing timer, start a new
\* one, release the lock
ScheduleBackupTimer ==
    /\ obs_pc = "timer"
    /\ LET new == NumTimersStarted + 1
       IN  /\ tstate' = [TimerCancel(tstate, timer) EXCEPT ![new] = "waiting"]
           /\ tdeadline' = [tdeadline EXCEPT ![new] = now + debounce_seconds]
           /\ tborn' = [tborn EXCEPT ![new] = cancels]
           /\ timer' = new
    /\ lock' = "free"
    /\ obs_pc' = "idle"
    /\ UNCHANGED <<now, debounce_seconds, last_event_time, pending, event_count,
                   was_pending, fileVars, evTimes, callLog, cancels, cb_raised,
                   batchLog, dropped, notDebounceVars>>

\* threading.Timer.run: the wait timed out and finished is not set, so the
\* thread goes on to call _trigger_backup
TimerExpire(i) ==
    /\ tstate[i] = "waiting"
    /\ now >= tdeadline[i]
    /\ tstate' = [tstate EXCEPT ![i] = "expired"]
    /\ UNCHANGED <<now, debounce_seconds, handlerVars, tdeadline, tborn, obs_pc,
                   was_pending, fileVars, evTimes, callLog, cancels, cb_raised,
                   batchLog, dropped, notDebounceVars>>

\* _trigger_backup without the test of _pending
TriggerBackupFlags_NoCheck(i) ==
    /\ tstate[i] = "expired"
    /\ lock = "free"
    /\ pending' = FALSE
    /\ event_count' = 0
    /\ lock' = "timer"
    /\ tstate' = [tstate EXCEPT ![i] = "locked"]
    /\ UNCHANGED <<now, debounce_seconds, last_event_time, timer, tdeadline, tborn,
                   obs_pc, was_pending, fileVars, evTimes, callLog, cancels,
                   cb_raised, batchLog, dropped, notDebounceVars>>

\* _trigger_backup, lines 107-113: take the lock; return if nothing is
\* pending, else clear the flags
TriggerBackupFlags(i) ==
    /\ tstate[i] = "expired"
    /\ lock = "free"
    /\ IF ~pending
       THEN /\ tstate' = [tstate EXCEPT ![i] = "done"]
            /\ UNCHANGED <<pending, event_count, lock>>
       ELSE /\ pending' = FALSE
            /\ event_count' = 0
            /\ lock' = "timer"
            /\ tstate' = [tstate EXCEPT ![i] = "locked"]
    /\ UNCHANGED <<now, debounce_seconds, last_event_time, timer, tdeadline, tborn,
                   obs_pc, was_pending, fileVars, evTimes, callLog, cancels,
                   cb_raised,
                   batchLog, dropped, notDebounceVars>>

\* _trigger_backup calling on_changes inside the `with self._lock` block
TriggerBackupInvoke_HoldLock(i) ==
    /\ tstate[i] = "locked"
    /\ pending_changes' = FileOf(TextFalse)
    /\ tstate' = [tstate EXCEPT ![i] = "callback"]
    /\ callLog' = Append(callLog, [time |-> now,
                                   last_event |-> last_event_time,
                                   seen |-> Len(evTimes),
                                   timer |-> i,
                                   cancels |-> cancels])
    /\ UNCHANGED <<now, debounce_seconds, last_event_time, timer, pending, event_count,
                   lock, tdeadline, tborn, obs_pc, was_pending, last_change,
                   evTimes, cancels, cb_raised, batchLog, dropped, notDebounceVars>>

\* _trigger_backup without the write of pending_changes
TriggerBackupInvoke_NoMarker(i) ==
    /\ tstate[i] = "locked"
    /\ lock' = "free"
    /\ tstate' = [tstate EXCEPT ![i] = "callback"]
    /\ callLog' = Append(callLog, [time |-> now,
                                   last_event |-> last_event_time,
                                   seen |-> Len(evTimes),
                                   timer |-> i,
                                   cancels |-> cancels])
    /\ UNCHANGED <<now, debounce_seconds, last_event_time, timer, pending, event_count,
                   tdeadline, tborn, obs_pc, was_pending, fileVars,
                   evTimes, cancels, cb_raised, batchLog, dropped, notDebounceVars>>

\* _trigger_backup, lines 114-118: write the marker, release the lock and
\* call on_changes
TriggerBackupInvoke(i) ==
    /\ tstate[i] = "locked"
    /\ pending_changes' = FileOf(TextFalse)
    /\ lock' = "free"
    /\ tstate' = [tstate EXCEPT ![i] = "callback"]
    /\ callLog' = Append(callLog, [time |-> now,
                                   last_event |-> last_event_time,
                                   seen |-> Len(evTimes),
                                   timer |-> i,
                                   cancels |-> cancels])
    /\ UNCHANGED <<now, debounce_seconds, last_event_time, timer, pending, event_count,
                   tdeadline, tborn, obs_pc, was_pending, last_change,
                   evTimes, cancels, cb_raised,
                   batchLog, dropped, notDebounceVars>>

\* _trigger_backup with the try/except around on_changes left out: an
\* exception ends the timer thread with an unhandled exception
TriggerBackupReturn_Propagate(i, raises) ==
    /\ tstate[i] = "callback"
    /\ tstate' = [tstate EXCEPT ![i] = IF raises THEN "crashed" ELSE "done"]
    /\ cb_raised' = IF raises THEN cb_raised \cup {i} ELSE cb_raised
    /\ UNCHANGED <<now, debounce_seconds, handlerVars, tdeadline, tborn, obs_pc,
                   was_pending, fileVars, evTimes, callLog, cancels,
                   batchLog, dropped, notDebounceVars>>

\* _trigger_backup, lines 117-121: on_changes returns, or raises an
\* Exception that is caught and logged; either way the timer thread ends
TriggerBackupReturn(i, raises) ==
    /\ tstate[i] = "callback"
    /\ tstate' = [tstate EXCEPT ![i] = "done"]
    /\ cb_raised' = IF raises THEN cb_raised \cup {i} ELSE cb_raised
    /\ UNCHANGED <<now, debounce_seconds, handlerVars, tdeadline, tborn, obs_pc,
                   was_pending, fileVars, evTimes, callLog, cancels,
                   batchLog, dropped, notDebounceVars>>

\* a cancel() that also drops the pending batch
Cancel_ClearsPending ==
    /\ cancels < MaxCancels
    /\ lock = "free"
    /\ IF timer # 0
       THEN /\ tstate' = TimerCancel(tstate, timer)
            /\ timer' = 0
       ELSE UNCHANGED <<tstate, timer>>
    /\ pending' = FALSE
    /\ event_count' = 0
    /\ cancels' = cancels + 1
    /\ UNCHANGED <<now, debounce_seconds, last_event_time, lock,
                   tdeadline, tborn, obs_pc, was_pending, fileVars, evTimes,
                   callLog, cb_raised, batchLog, dropped, notDebounceVars>>

\* cancel(), lines 125-129 (called by VaultWatcher.stop)
Cancel ==
    /\ cancels < MaxCancels
    /\ lock = "free"
    /\ IF timer # 0
       THEN /\ tstate' = TimerCancel(tstate, timer)
            /\ timer' = 0
       ELSE UNCHANGED <<tstate, timer>>
    /\ cancels' = cancels + 1
    /\ UNCHANGED <<now, debounce_seconds, last_event_time, pending, event_count, lock,
                   tdeadline, tborn, obs_pc, was_pending, fileVars, evTimes,
                   callLog, cb_raised,
                   batchLog, dropped, notDebounceVars>>

--------------------------------------------------------------------------
(* RestoreHandler: POST /ui/restore and GET /ui/preview, /ui/download      *)
(*                                                                         *)
(* Every server that serves RestoreHandler sets the health state first     *)
(* (HealthServer.start, scripts/dev_ui.py), so _get_vault_path() returns   *)
(* the configured vault path, /vault by default.                           *)

MaxReqAtoms == 4

ReqAtoms == {"/", "..", "vault", "x", "link"}

\* config.vault_path, as segments
VaultSegs == << <<"vault">> >>

\* The one symbolic link of the file system: /vault/link -> /x
LinkAt == << <<"vault">>, <<"link">> >>
LinkTo == << <<"x">> >>

RestorePaths == { << >> } \cup SeqsOf(ReqAtoms, 1, MaxReqAtoms)
ContentPaths == { << >>, <<"x">> }
FileSnapshots == { << >>, Ident(8, "a", 0, "a") }
RequestSources == { << >>, Ident(7, "a", 0, "a"), Ident(8, "a", 0, "a"),
                    Ident(8, "a", 8, "g"), Ident(40, "7", 0, "7") }

\* str(path) of an absolute path given by its segments
RECURSIVE JoinSegs(_)
JoinSegs(segs) ==
    IF segs = << >> THEN << >> ELSE <<"/">> \o Head(segs) \o JoinSegs(Tail(segs))

PathStr(segs) == IF segs = << >> THEN <<"/">> ELSE JoinSegs(segs)

\* Path.resolve(): ".." steps up (not above the root), a path that is a
\* symbolic link is replaced by what it points to
RECURSIVE ResolveSegs(_, _)
ResolveSegs(done, rest) ==
    IF rest = << >> THEN done
    ELSE IF Head(rest) = <<"..">>
         THEN ResolveSegs(IF done = << >> THEN << >> ELSE SubSeq(done, 1, Len(done) - 1),
                          Tail(rest))
    ELSE IF Append(done, Head(rest)) = LinkAt THEN ResolveSegs(LinkTo, Tail(rest))
    ELSE ResolveSegs(Append(done, Head(rest)), Tail(rest))

\* target = Path(file_path) if file_path.startswith("/") else vault_path / file_path,
\* then target.resolve()
ResolvedTarget(file_path) ==
    IF StartsWith(file_path, <<"/">>)
    THEN ResolveSegs(<< >>, SplitSlash(file_path))
    ELSE ResolveSegs(<< >>, VaultSegs \o SplitSlash(file_path))

\* str(target).startswith(str(vault_path.resolve()))
TargetAllowed(target) ==
    StartsWith(PathStr(target), PathStr(ResolveSegs(<< >>, VaultSegs)))

\* _resolve_restore_target: the resolved target, or "None"
resolve_restore_target(file_path) ==
    IF TargetAllowed(ResolvedTarget(file_path))
    THEN [ok |-> TRUE, path |-> ResolvedTarget(file_path)]
    ELSE [ok |-> FALSE, path |-> << >>]

\* the source looked up first for a source type, restic tried first when ambiguous
FirstLookup_ResticFirst(source_type) ==
    IF source_type = "git" THEN "git" ELSE "restic"

\* the source looked up first for a source type
FirstLookup(source_type) ==
    IF source_type = "restic" THEN "restic" ELSE "git"

ParentOf(segs) == SubSeq(segs, 1, Len(segs) - 1)

RestoreInit ==
    /\ git_has \in BOOLEAN
    /\ restic_has \in BOOLEAN
    /\ rq_kind = "none"
    /\ rq_source = << >>
    /\ rq_path = << >>
    /\ rq_pc = "idle"
    /\ rq_target = << >>
    /\ rq_cmds = << >>
    /\ rq_raised = "none"
    /\ rq_status = 0
    /\ rq_responses = 0
    /\ rq_body = "none"
    /\ fs_dirs = {}
    /\ fs_files = {}

RestoreIdle ==
    /\ git_has = FALSE
    /\ restic_has = FALSE
    /\ rq_kind = "none"
    /\ rq_source = << >>
    /\ rq_path = << >>
    /\ rq_pc = "idle"
    /\ rq_target = << >>
    /\ rq_cmds = << >>
    /\ rq_raised = "none"
    /\ rq_status = 0
    /\ rq_responses = 0
    /\ rq_body = "none"
    /\ fs_dirs = {}
    /\ fs_files = {}

\* _send_html / _send_download: one response
Send(code, body) ==
    /\ rq_status' = code
    /\ rq_body' = body
    /\ rq_responses' = rq_responses + 1

NoSend == UNCHANGED <<rq_status, rq_body, rq_responses>>

\* directories that exist when the request arrives: /, the vault root and
\* the directory the link points to
ExistingDirs == { << >>, VaultSegs, LinkTo }

\* target.write_text(content) raises IsADirectoryError for a directory
WriteFails(target) == target \in ExistingDirs \cup fs_dirs

\* _handle_restore, lines 542-562: parameters, target, source type
HandleRestore(source, path) ==
    /\ rq_pc = "idle"
    /\ rq_kind' = "restore"
    /\ rq_source' = source
    /\ rq_path' = path
    /\ IF source = << >> \/ path = << >>
       THEN /\ Send(400, "Missing source or path parameter")
            /\ rq_pc' = "done"
            /\ UNCHANGED rq_target
       ELSE IF ~resolve_restore_target(path).ok
       THEN /\ Send(400, "Invalid restore path")
            /\ rq_pc' = "done"
            /\ UNCHANGED rq_target
       ELSE /\ rq_target' = resolve_restore_target(path).path
            /\ rq_pc' = FirstLookup(detect_source(source))
            /\ NoSend
    /\ UNCHANGED <<git_has, restic_has, rq_cmds, rq_raised, fs_dirs, fs_files,
                   notRestoreVars>>

\* _handle_preview / _handle_download up to the call of _get_file_content
HandleContent(kind, source, path) ==
    /\ rq_pc = "idle"
    /\ rq_kind' = kind
    /\ rq_source' = source
    /\ rq_path' = path
    /\ IF source = << >> \/ path = << >>
       THEN /\ Send(400, "Missing source or path parameter")
            /\ rq_pc' = "done"
       ELSE /\ rq_pc' = FirstLookup(detect_source(source))
            /\ NoSend
    /\ UNCHANGED <<git_has, restic_has, rq_target, rq_cmds, rq_raised, fs_dirs, fs_files,
                   notRestoreVars>>

\* git_restore_file with an ambiguous identifier that git does not know
\* answered 404 at once
GitRestoreFile_NoFallback ==
    /\ rq_kind = "restore"
    /\ rq_pc = "git"
    /\ rq_cmds' = Append(rq_cmds, "git show")
    /\ IF git_has /\ WriteFails(rq_target)
       THEN /\ fs_dirs' = fs_dirs \cup {ParentOf(rq_target)}
            /\ rq_raised' = "IsADirectoryError"
            /\ rq_pc' = "raised"
            /\ NoSend
            /\ UNCHANGED fs_files
       ELSE IF git_has
       THEN /\ fs_dirs' = fs_dirs \cup {ParentOf(rq_target)}
            /\ fs_files' = fs_files \cup {rq_target}
            /\ Send(200, "git commit")
            /\ rq_pc' = "done"
            /\ UNCHANGED rq_raised
       ELSE /\ rq_raised' = "git"
            /\ Send(404, "error")
            /\ rq_pc' = "done"
            /\ UNCHANGED <<fs_dirs, fs_files>>
    /\ UNCHANGED <<git_has, restic_has, rq_kind, rq_source, rq_path, rq_target,
                   notRestoreVars>>

\* _handle_restore, lines 563-578, with git_restore_file: git show, then
\* mkdir and write_text. FileNotFoundError falls through to restic for an
\* ambiguous source and becomes a 404 otherwise; the IsADirectoryError of
\* write_text is caught nowhere and leaves the handler.
GitRestoreFile ==
    /\ rq_kind = "restore"
    /\ rq_pc = "git"
    /\ rq_cmds' = Append(rq_cmds, "git show")
    /\ IF git_has /\ WriteFails(rq_target)
       THEN /\ fs_dirs' = fs_dirs \cup {ParentOf(rq_target)}
            /\ rq_raised' = "IsADirectoryError"
            /\ rq_pc' = "raised"
            /\ NoSend
            /\ UNCHANGED fs_files
       ELSE IF git_has
       THEN /\ fs_dirs' = fs_dirs \cup {ParentOf(rq_target)}
            /\ fs_files' = fs_files \cup {rq_target}
            /\ Send(200, "git commit")
            /\ rq_pc' = "done"
            /\ UNCHANGED rq_raised
       ELSE IF detect_source(rq_source) = "ambiguous"
       THEN /\ rq_pc' = "restic"
            /\ NoSend
            /\ UNCHANGED <<fs_dirs, fs_files, rq_raised>>
       ELSE /\ rq_raised' = "git"
            /\ Send(404, "error")
            /\ rq_pc' = "done"
            /\ UNCHANGED <<fs_dirs, fs_files>>
    /\ UNCHANGED <<git_has, restic_has, rq_kind, rq_source, rq_path, rq_target,
                   notRestoreVars>>

\* restic_restore_file creating the parent directory before the dump
ResticRestoreFile_MkdirFirst ==
    /\ rq_kind = "restore"
    /\ rq_pc = "restic"
    /\ rq_cmds' = Append(rq_cmds, "restic dump")
    /\ IF restic_has /\ WriteFails(rq_target)
       THEN /\ fs_dirs' = fs_dirs \cup {ParentOf(rq_target)}
            /\ rq_raised' = "IsADirectoryError"
            /\ rq_pc' = "raised"
            /\ NoSend
            /\ UNCHANGED fs_files
       ELSE IF restic_has
       THEN /\ fs_dirs' = fs_dirs \cup {ParentOf(rq_target)}
            /\ fs_files' = fs_files \cup {rq_target}
            /\ Send(200, "restic snapshot")
            /\ rq_pc' = "done"
            /\ UNCHANGED rq_raised
       ELSE /\ fs_dirs' = fs_dirs \cup {ParentOf(rq_target)}
            /\ rq_raised' = "restic"
            /\ Send(404, "error")
            /\ rq_pc' = "done"
            /\ UNCHANGED fs_files
    /\ UNCHANGED <<git_has, restic_has, rq_kind, rq_source, rq_path, rq_target,
                   notRestoreVars>>

\* _handle_restore, lines 563-578, with restic_restore_file: restic dump,
\* then mkdir and write_text
ResticRestoreFile ==
    /\ rq_kind = "restore"
    /\ rq_pc = "restic"
    /\ rq_cmds' = Append(rq_cmds, "restic dump")
    /\ IF restic_has /\ WriteFails(rq_target)
       THEN /\ fs_dirs' = fs_dirs \cup {ParentOf(rq_target)}
            /\ rq_raised' = "IsADirectoryError"
            /\ rq_pc' = "raised"
            /\ NoSend
            /\ UNCHANGED fs_files
       ELSE IF restic_has
       THEN /\ fs_dirs' = fs_dirs \cup {ParentOf(rq_target)}
            /\ fs_files' = fs_files \cup {rq_target}
            /\ Send(200, "restic snapshot")
            /\ rq_pc' = "done"
            /\ UNCHANGED rq_raised
       ELSE /\ rq_raised' = "restic"
            /\ Send(404, "error")
            /\ rq_pc' = "done"
            /\ UNCHANGED <<fs_dirs, fs_files>>
    /\ UNCHANGED <<git_has, restic_has, rq_kind, rq_source, rq_path, rq_target,
                   notRestoreVars>>

\* _get_file_content: git_show_file
GitShowFile ==
    /\ rq_kind \in {"preview", "download"}
    /\ rq_pc = "git"
    /\ rq_cmds' = Append(rq_cmds, "git show")
    /\ IF git_has
       THEN /\ Send(200, "git content")
            /\ rq_pc' = "done"
            /\ UNCHANGED rq_raised
       ELSE IF detect_source(rq_source) = "ambiguous"
       THEN /\ rq_pc' = "restic"
            /\ NoSend
            /\ UNCHANGED rq_raised
       ELSE /\ rq_raised' = "git"
            /\ Send(404, "error")
            /\ rq_pc' = "done"
    /\ UNCHANGED <<git_has, restic_has, rq_kind, rq_source, rq_path, rq_target, fs_dirs,
                   fs_files, notRestoreVars>>

\* _get_file_content: restic_show_file
ResticShowFile ==
    /\ rq_kind \in {"preview", "download"}
    /\ rq_pc = "restic"
    /\ rq_cmds' = Append(rq_cmds, "restic dump")
    /\ IF restic_has
       THEN /\ Send(200, "restic content")
            /\ rq_pc' = "done"
            /\ UNCHANGED rq_raised
       ELSE /\ rq_raised' = "restic"
            /\ Send(404, "error")
            /\ rq_pc' = "done"
    /\ UNCHANGED <<git_has, restic_has, rq_kind, rq_source, rq_path, rq_target, fs_dirs,
                   fs_files, notRestoreVars>>

--------------------------------------------------------------------------
(* backup.run_backup: has_changes, git_commit, restic_backup, restic_prune *)
(*                                                                         *)
(* The exit codes and outputs of git and restic are the environment's      *)
(* choice at every command.                                                *)

MaxBackupTime == 2

ExitCodes == {0, 1}

\* stdout.strip().split("\n") of `git diff --cached --stat`: str.split
\* never returns an empty list, empty output gives one empty line
StatLines == { <<"">>, <<" a.md | 2 +-", " 1 file changed, 1 insertion(+)">> }

\* get_changes_summary: lines[-1] if lines else "files changed"
get_changes_summary(lines) ==
    IF Len(lines) > 0 THEN lines[Len(lines)] ELSE "files changed"

\* truth value of a str
Truthy(text) == text # ""

NoResult == [kind |-> "none", success |-> FALSE, commit_created |-> FALSE,
             backup_created |-> FALSE, changes_summary |-> "", error |-> "None"]

BackupResult(success, commit_created, backup_created, summary, error) ==
    [kind |-> "BackupResult", success |-> success, commit_created |-> commit_created,
     backup_created |-> backup_created, changes_summary |-> summary, error |-> error]

Raised(what) == [NoResult EXCEPT !.kind = "raised", !.error = what]

NoHist == [add |-> -1, reset |-> -1, init |-> -1, backup |-> -1, prune |-> -1, prunes |-> 0,
           snapshot |-> "none"]

BackupInit ==
    /\ dry_run \in BOOLEAN
    /\ bk_now = 1
    /\ bk_pc = "idle"
    /\ bk_dirty = "unknown"
    /\ bk_staged = FALSE
    /\ bk_stats = ""
    /\ commit_success = FALSE
    /\ changes_summary = ""
    /\ bk_commit_rc = -1
    /\ bk_cmds = << >>
    /\ bk_result = NoResult
    /\ last_commit \in {NoFile, FileOf(DecStr(0))}
    /\ last_backup \in {NoFile, FileOf(DecStr(0))}
    /\ bk_old = [last_commit |-> last_commit, last_backup |-> last_backup]
    /\ bk_hist = NoHist

BackupIdle ==
    /\ dry_run = FALSE
    /\ bk_now = 1
    /\ bk_pc = "idle"
    /\ bk_dirty = "unknown"
    /\ bk_staged = FALSE
    /\ bk_stats = ""
    /\ commit_success = FALSE
    /\ changes_summary = ""
    /\ bk_commit_rc = -1
    /\ bk_cmds = << >>
    /\ bk_result = NoResult
    /\ last_commit = NoFile
    /\ last_backup = NoFile
    /\ bk_old = [last_commit |-> NoFile, last_backup |-> NoFile]
    /\ bk_hist = NoHist

\* the clock advances during a run
BackupTick ==
    /\ bk_pc \notin {"idle", "done"}
    /\ bk_now < MaxBackupTime
    /\ bk_now' = bk_now + 1
    /\ UNCHANGED <<dry_run, bk_pc, bk_dirty, bk_staged, bk_stats, commit_success,
                   changes_summary, bk_commit_rc, bk_cmds, bk_result, last_commit,
                   last_backup, bk_old, bk_hist, notBackupVars>>

\* run_backup, lines 286-288, with the has_changes test left out
RunBackupDetect_NoTest(changed) ==
    /\ bk_pc = "idle"
    /\ bk_cmds' = Append(bk_cmds, "git status")
    /\ bk_dirty' = IF changed THEN "dirty" ELSE "clean"
    /\ bk_pc' = "stage"
    /\ UNCHANGED <<dry_run, bk_now, bk_staged, bk_stats, commit_success,
                   changes_summary, bk_commit_rc, bk_result, last_commit, last_backup,
                   bk_old, bk_hist, notBackupVars>>

\* run_backup, lines 286-288: has_changes; nothing to do without changes
RunBackupDetect(changed) ==
    /\ bk_pc = "idle"
    /\ bk_cmds' = Append(bk_cmds, "git status")
    /\ bk_dirty' = IF changed THEN "dirty" ELSE "clean"
    /\ IF ~changed
       THEN /\ bk_result' = BackupResult(TRUE, FALSE, FALSE, "", "None")
            /\ bk_pc' = "done"
       ELSE /\ bk_pc' = "stage"
            /\ UNCHANGED bk_result
    /\ UNCHANGED <<dry_run, bk_now, bk_staged, bk_stats, commit_success,
                   changes_summary, bk_commit_rc, last_commit, last_backup,
                   bk_old, bk_hist, notBackupVars>>

\* git_commit with an empty staging list reported as a failed commit
GitCommitStage_EmptyIsFailure(add_rc, has_files, lines) ==
    /\ bk_pc = "stage"
    /\ bk_hist' = [bk_hist EXCEPT !.add = add_rc]
    /\ IF add_rc # 0
       THEN /\ bk_cmds' = Append(bk_cmds, "git add")
            /\ bk_result' = Raised("CalledProcessError")
            /\ bk_pc' = "done"
            /\ UNCHANGED <<bk_staged, bk_stats, commit_success, changes_summary>>
       ELSE IF ~has_files
       THEN /\ bk_cmds' = bk_cmds \o <<"git add", "git diff --name-only">>
            /\ bk_staged' = FALSE
            /\ commit_success' = FALSE
            /\ changes_summary' = ""
            /\ bk_result' = BackupResult(FALSE, FALSE, FALSE, "", "Git commit failed")
            /\ bk_pc' = "done"
            /\ UNCHANGED bk_stats
       ELSE /\ bk_cmds' = bk_cmds \o <<"git add", "git diff --name-only", "git diff --stat">>
            /\ bk_staged' = TRUE
            /\ bk_stats' = get_changes_summary(lines)
            /\ bk_pc' = "commit"
            /\ UNCHANGED <<commit_success, changes_summary, bk_result>>
    /\ UNCHANGED <<dry_run, bk_now, bk_dirty, bk_commit_rc, last_commit, last_backup,
                   bk_old, notBackupVars>>

\* git_commit, lines 159-169: git add -A (check=True raises on a non-zero
\* exit), the staged file list, the summary; with nothing staged git_commit
\* returns (False, "") and run_backup goes on to the restic backup
GitCommitStage(add_rc, has_files, lines) ==
    /\ bk_pc = "stage"
    /\ bk_hist' = [bk_hist EXCEPT !.add = add_rc]
    /\ IF add_rc # 0
       THEN /\ bk_cmds' = Append(bk_cmds, "git add")
            /\ bk_result' = Raised("CalledProcessError")
            /\ bk_pc' = "done"
            /\ UNCHANGED <<bk_staged, bk_stats, commit_success, changes_summary>>
       ELSE IF ~has_files
       THEN /\ bk_cmds' = bk_cmds \o <<"git add", "git diff --name-only">>
            /\ bk_staged' = FALSE
            /\ commit_success' = FALSE
            /\ changes_summary' = ""
            /\ bk_pc' = "snapshot"
            /\ UNCHANGED <<bk_stats, bk_result>>
       ELSE /\ bk_cmds' = bk_cmds \o <<"git add", "git diff --name-only", "git diff --stat">>
            /\ bk_staged' = TRUE
            /\ bk_stats' = get_changes_summary(lines)
            /\ bk_pc' = "commit"
            /\ UNCHANGED <<commit_success, changes_summary, bk_result>>
    /\ UNCHANGED <<dry_run, bk_now, bk_dirty, bk_commit_rc, last_commit, last_backup,
                   bk_old, notBackupVars>>

\* run_backup, line 292: the commit step is taken to have failed
CommitFailed(success, summary) == ~success /\ Truthy(summary)

\* git_commit and run_backup without the write of last_commit
GitCommitCommit_NoMarker(rc) ==
    /\ bk_pc = "commit"
    /\ LET ran     == ~dry_run
           success == dry_run \/ rc = 0
       IN  /\ bk_cmds' = Append(bk_cmds, IF dry_run THEN "git reset" ELSE "git commit")
           /\ bk_commit_rc' = IF ran THEN rc ELSE bk_commit_rc
           /\ bk_hist' = [bk_hist EXCEPT !.reset = IF dry_run THEN rc ELSE @]
           /\ commit_success' = success
           /\ changes_summary' = bk_stats
           /\ IF CommitFailed(success, bk_stats)
              THEN /\ bk_result' = BackupResult(FALSE, FALSE, FALSE, bk_stats,
                                                "Git commit failed")
                   /\ bk_pc' = "done"
              ELSE /\ bk_pc' = "snapshot"
                   /\ UNCHANGED bk_result
    /\ UNCHANGED <<dry_run, bk_now, bk_dirty, bk_staged, bk_stats, last_commit, last_backup,
                   bk_old, notBackupVars>>

\* git_commit, lines 171-191, then run_backup, lines 291-302. A dry run
\* runs `git reset HEAD` with check=False in place of the commit and
\* returns True whatever the exit code of the reset
GitCommitCommit(rc) ==
    /\ bk_pc = "commit"
    /\ LET ran     == ~dry_run
           success == dry_run \/ rc = 0
       IN  /\ bk_cmds' = Append(bk_cmds, IF dry_run THEN "git reset" ELSE "git commit")
           /\ bk_commit_rc' = IF ran THEN rc ELSE bk_commit_rc
           /\ bk_hist' = [bk_hist EXCEPT !.reset = IF dry_run THEN rc ELSE @]
           /\ commit_success' = success
           /\ changes_summary' = bk_stats
           /\ IF CommitFailed(success, bk_stats)
              THEN /\ bk_result' = BackupResult(FALSE, FALSE, FALSE, bk_stats,
                                                "Git commit failed")
                   /\ bk_pc' = "done"
                   /\ UNCHANGED last_commit
              ELSE /\ last_commit' = IF success THEN FileOf(DecStr(bk_now)) ELSE last_commit
                   /\ bk_pc' = "snapshot"
                   /\ UNCHANGED bk_result
    /\ UNCHANGED <<dry_run, bk_now, bk_dirty, bk_staged, bk_stats, last_backup, bk_old,
                   notBackupVars>>

\* the index holds staged files: git add staged some, and neither a commit
\* nor a reset that exited zero has emptied it
IndexStaged == bk_staged /\ bk_commit_rc # 0 /\ bk_hist.reset # 0

\* what restic_backup returns: False when `restic snapshots` or `restic
\* backup` exits non-zero; in a dry run the backup command is not run
restic_backup_ok(init_rc, backup_rc) == init_rc = 0 /\ (dry_run \/ backup_rc = 0)

\* restic_backup followed by a run_backup that reports the failed snapshot
\* with commit_created=False
ResticBackup_DropCommit(init_rc, backup_rc) ==
    /\ bk_pc = "snapshot"
    /\ LET ran == init_rc = 0 /\ ~dry_run
           ok  == restic_backup_ok(init_rc, backup_rc)
       IN  /\ bk_cmds' = IF ran THEN bk_cmds \o <<"restic snapshots", "restic backup">>
                         ELSE Append(bk_cmds, "restic snapshots")
           /\ bk_hist' = [bk_hist EXCEPT !.init = init_rc,
                                         !.backup = IF ran THEN backup_rc ELSE @,
                                         !.snapshot = IF ok THEN "ok" ELSE "failed"]
           /\ IF ~ok
              THEN /\ bk_result' = BackupResult(FALSE, FALSE, FALSE,
                                                changes_summary, "Restic backup failed")
                   /\ bk_pc' = "done"
                   /\ UNCHANGED last_backup
              ELSE /\ last_backup' = FileOf(DecStr(bk_now))
                   /\ bk_pc' = "prune"
                   /\ UNCHANGED bk_result
    /\ UNCHANGED <<dry_run, bk_now, bk_dirty, bk_staged, bk_stats, commit_success,
                   changes_summary, bk_commit_rc, last_commit, bk_old, notBackupVars>>

\* restic_backup, lines 194-230, then run_backup, lines 305-315
ResticBackup(init_rc, backup_rc) ==
    /\ bk_pc = "snapshot"
    /\ LET ran == init_rc = 0 /\ ~dry_run
           ok  == restic_backup_ok(init_rc, backup_rc)
       IN  /\ bk_cmds' = IF ran THEN bk_cmds \o <<"restic snapshots", "restic backup">>
                         ELSE Append(bk_cmds, "restic snapshots")
           /\ bk_hist' = [bk_hist EXCEPT !.init = init_rc,
                                         !.backup = IF ran THEN backup_rc ELSE @,
                                         !.snapshot = IF ok THEN "ok" ELSE "failed"]
           /\ IF ~ok
              THEN /\ bk_result' = BackupResult(FALSE, commit_success, FALSE,
                                                changes_summary, "Restic backup failed")
                   /\ bk_pc' = "done"
                   /\ UNCHANGED last_backup
              ELSE /\ last_backup' = FileOf(DecStr(bk_now))
                   /\ bk_pc' = "prune"
                   /\ UNCHANGED bk_result
    /\ UNCHANGED <<dry_run, bk_now, bk_dirty, bk_staged, bk_stats, commit_success,
                   changes_summary, bk_commit_rc, last_commit, bk_old, notBackupVars>>

\* restic_prune followed by a run_backup that fails the run when the prune
\* command fails
ResticPrune_Fatal(rc) ==
    /\ bk_pc = "prune"
    /\ bk_cmds' = IF dry_run THEN bk_cmds ELSE Append(bk_cmds, "restic forget")
    /\ bk_hist' = [bk_hist EXCEPT !.prune = IF dry_run THEN @ ELSE rc,
                                  !.prunes = @ + 1]
    /\ bk_result' = BackupResult(dry_run \/ rc = 0, commit_success, TRUE,
                                 changes_summary, "None")
    /\ bk_pc' = "done"
    /\ UNCHANGED <<dry_run, bk_now, bk_dirty, bk_staged, bk_stats, commit_success,
                   changes_summary, bk_commit_rc, last_commit, last_backup, bk_old,
                   notBackupVars>>

\* restic_prune, lines 244-278 (its return value is not used), then
\* run_backup, lines 318-332
ResticPrune(rc) ==
    /\ bk_pc = "prune"
    /\ bk_cmds' = IF dry_run THEN bk_cmds ELSE Append(bk_cmds, "restic forget")
    /\ bk_hist' = [bk_hist EXCEPT !.prune = IF dry_run THEN @ ELSE rc,
                                  !.prunes = @ + 1]
    /\ bk_result' = BackupResult(TRUE, commit_success, TRUE, changes_summary, "None")
    /\ bk_pc' = "done"
    /\ UNCHANGED <<dry_run, bk_now, bk_dirty, bk_staged, bk_stats, commit_success,
                   changes_summary, bk_commit_rc, last_commit, last_backup, bk_old,
                   notBackupVars>>

--------------------------------------------------------------------------
(* restore.group_entries_by_directory                                      *)
(*                                                                         *)
(* Paths are strings, modelled as sequences of characters.  The entries    *)
(* passed in come from restic_ls: absolute paths without empty segments.   *)

MaxEntries == 3

\* "/" followed by each segment in turn
RECURSIVE SlashJoin(_)
SlashJoin(segs) ==
    IF segs = << >> THEN << >> ELSE <<"/">> \o Head(segs) \o SlashJoin(Tail(segs))

GroupPaths ==
    { SlashJoin(segs) : segs \in { << <<"v">> >>,
                                   << <<"v">>, <<"a">> >>,
                                   << <<"v">>, <<"B">> >>,
                                   << <<"v">>, <<"b">> >>,
                                   << <<"v">>, <<"a">>, <<"a">> >>,
                                   << <<"v">>, <<"a">>, <<"b">> >>,
                                   << <<"v", "x">> >> } }

GroupPrefixes == { <<"/">>, <<"/", "v">>, <<"/", "v", "/">>, <<"/", "v", "/", "a">> }

\* ResticEntry as restic_ls builds it
ResticEntry(path, type, size, mtime) ==
    [path |-> path, type |-> type, size |-> size, mtime |-> mtime]

GroupEntries ==
    { ResticEntry(p, t, IF t = "dir" THEN 0 ELSE 1, "m") : p \in GroupPaths, t \in {"dir", "file"} }

\* str.rstrip("/")
RECURSIVE RStripSlash(_)
RStripSlash(s) ==
    IF s # << >> /\ s[Len(s)] = "/" THEN RStripSlash(SubSeq(s, 1, Len(s) - 1)) ELSE s

\* a prefix used as it was given, with no separator added
Normalized_AsGiven(prefix) == prefix

\* the prefix without the "/" that ends it
Normalized_NoSlash(prefix) ==
    IF prefix # <<"/">> THEN RStripSlash(prefix) ELSE <<"/">>

\* line 278: prefix.rstrip("/") + "/" if prefix != "/" else "/"
Normalized(prefix) ==
    IF prefix # <<"/">> THEN RStripSlash(prefix) \o <<"/">> ELSE <<"/">>

\* index of the first "/" in s, 0 if there is none ("/" in s, s.split("/", 1))
FirstSlash(s) ==
    IF \E k \in DOMAIN s : s[k] = "/"
    THEN CHOOSE k \in DOMAIN s : s[k] = "/" /\ \A j \in 1..(k - 1) : s[j] # "/"
    ELSE 0

\* dir_name in seen_dirs; seen_dirs is kept as the sequence of its items in
\* insertion order, as a dict keeps them
InSeenDirs(dir_name, seen_dirs) == \E k \in DOMAIN seen_dirs : seen_dirs[k].name = dir_name

\* lines 282-308: the body of the loop over the entries
GroupStep(acc, entry, normalized) ==
    IF ~StartsWith(entry.path, normalized) THEN acc
    ELSE LET relative == SubSeq(entry.path, Len(normalized) + 1, Len(entry.path))
             slash    == FirstSlash(relative)
         IN  IF relative = << >> THEN acc
             ELSE IF slash # 0
             THEN LET dir_name == SubSeq(relative, 1, slash - 1)
                      dir_path == normalized \o dir_name
                  IN  IF InSeenDirs(dir_name, acc.seen_dirs) THEN acc
                      ELSE [acc EXCEPT !.seen_dirs = Append(@,
                               [name |-> dir_name,
                                entry |-> IF entry.type = "dir" /\ entry.path = dir_path
                                          THEN entry
                                          ELSE ResticEntry(dir_path, "dir", 0, "")])]
             ELSE IF entry.type = "dir"
             THEN IF InSeenDirs(relative, acc.seen_dirs) THEN acc
                  ELSE [acc EXCEPT !.seen_dirs = Append(@, [name |-> relative, entry |-> entry])]
             ELSE [acc EXCEPT !.files = Append(@, entry)]

\* line 282: for entry in entries
RECURSIVE GroupLoop(_, _, _)
GroupLoop(acc, entries, normalized) ==
    IF entries = << >> THEN acc
    ELSE GroupLoop(GroupStep(acc, Head(entries), normalized), Tail(entries), normalized)

\* str.lower() of one character
LowerChar(c) == IF c = "B" THEN "b" ELSE c

\* str.lower()
LowerStr(s) == [i \in DOMAIN s |-> LowerChar(s[i])]

\* ord(c)
Ord(c) ==
    CASE c = "/" -> 47
      [] c = "B" -> 66
      [] c = "a" -> 97
      [] c = "b" -> 98
      [] c = "v" -> 118
      [] c = "x" -> 120

\* a < b for str: lexicographic by code point
RECURSIVE StrLess(_, _)
StrLess(a, b) ==
    IF b = << >> THEN FALSE
    ELSE IF a = << >> THEN TRUE
    ELSE IF Ord(Head(a)) # Ord(Head(b)) THEN Ord(Head(a)) < Ord(Head(b))
    ELSE StrLess(Tail(a), Tail(b))

\* a sort key that keeps the case of the path
PathKey_CaseSensitive(e) == e.path

\* lines 310-311: key=lambda e: e.path.lower()
PathKey(e) == LowerStr(e.path)

\* sorted(seq, key=PathKey): a stable sort, equal keys keep their order
RECURSIVE SortedByPath(_)
SortedByPath(seq) ==
    IF seq = << >> THEN << >>
    ELSE LET init == SortedByPath(SubSeq(seq, 1, Len(seq) - 1))
             e    == seq[Len(seq)]
             k    == Cardinality({ i \in DOMAIN init : ~StrLess(PathKey(e), PathKey(init[i])) })
         IN  SubSeq(init, 1, k) \o <<e>> \o SubSeq(init, k + 1, Len(init))

\* seen_dirs.values()
DictValues(seen_dirs) == [k \in DOMAIN seen_dirs |-> seen_dirs[k].entry]

\* group_entries_by_directory, lines 268-312
group_entries_by_directory(entries, prefix) ==
    LET acc == GroupLoop([seen_dirs |-> << >>, files |-> << >>], entries, Normalized(prefix))
    IN  SortedByPath(DictValues(acc.seen_dirs)) \o SortedByPath(acc.files)

GroupInit ==
    /\ gr_entries \in SeqsOf(GroupEntries, 0, MaxEntries)
    /\ gr_prefix \in GroupPrefixes
    /\ gr_pc = "init"
    /\ gr_result = << >>
    /\ gr_again = << >>

GroupIdle ==
    /\ gr_entries = << >>
    /\ gr_prefix = <<"/">>
    /\ gr_pc = "init"
    /\ gr_result = << >>
    /\ gr_again = << >>

--------------------------------------------------------------------------
(* restore._parse_git_log                                                  *)
(*                                                                         *)
(* The output of `git log --format=%H%n%h%n%aI%n%s` is a string, modelled  *)
(* as a sequence of characters; a word without whitespace is one           *)
(* character.  Every record is four lines, each ended by a newline.        *)

MaxCommits == 3

Whitespace == {" ", "\n"}

\* str.strip()
RECURSIVE Strip(_)
Strip(s) ==
    IF s = << >> THEN s
    ELSE IF Head(s) \in Whitespace THEN Strip(Tail(s))
    ELSE IF s[Len(s)] \in Whitespace THEN Strip(SubSeq(s, 1, Len(s) - 1))
    ELSE s

\* str.split("\n"): never empty, "" gives [""]
RECURSIVE SplitLines(_)
SplitLines(s) ==
    IF \E k \in DOMAIN s : s[k] = "\n"
    THEN LET k == CHOOSE i \in DOMAIN s : s[i] = "\n" /\ \A j \in 1..(i - 1) : s[j] # "\n"
         IN  <<SubSeq(s, 1, k - 1)>> \o SplitLines(SubSeq(s, k + 1, Len(s)))
    ELSE <<s>>

GitCommit(hash, short_hash, date, message) ==
    [hash |-> hash, short_hash |-> short_hash, date |-> date, message |-> message]

\* subjects: empty, one word, words separated by spaces
GitSubjects == { << >>, <<"fix">>, <<"fix", " ", "typo">> }

GitLogRecords ==
    { GitCommit(<<h>>, <<"s">>, <<"2025-01-15T10:30:00+00:00">>, m) :
          h \in {"h1", "h2"}, m \in GitSubjects }

\* what git prints for the records: four lines each, every line ended by "\n"
RECURSIVE GitLogOutput(_)
GitLogOutput(records) ==
    IF records = << >> THEN << >>
    ELSE LET r == Head(records)
         IN  r.hash \o <<"\n">> \o r.short_hash \o <<"\n">> \o r.date \o <<"\n">>
             \o r.message \o <<"\n">> \o GitLogOutput(Tail(records))

\* _parse_git_log, lines 62-76: range(0, len(lines) - 3, 4)
parse_git_log(output) ==
    LET lines  == SplitLines(Strip(output))
        starts == { i \in 0..(Len(lines) - 4) : i % 4 = 0 }
    IN  [j \in 1..Cardinality(starts) |->
            GitCommit(lines[4 * (j - 1) + 1], lines[4 * (j - 1) + 2],
                      lines[4 * (j - 1) + 3], lines[4 * (j - 1) + 4])]

GitLogInit ==
    /\ gl_records \in SeqsOf(GitLogRecords, 1, MaxCommits)
    /\ gl_called = FALSE
    /\ gl_result = << >>

GitLogIdle ==
    /\ gl_records = << >>
    /\ gl_called = FALSE
    /\ gl_result = << >>

--------------------------------------------------------------------------
(* restore.restic_ls                                                       *)
(*                                                                         *)
(* The standard output of `restic ls --json` is a sequence of lines; a     *)
(* line is blank, text that is not JSON, a JSON value that is not an       *)
(* object, or a JSON object.  The exit code and the output are the         *)
(* environment's choice.                                                   *)

MaxLines == 3

Returned(value) == [kind |-> "returned", value |-> value]
RaisedError(type) == [kind |-> "raised", value |-> type]
NotCalled == [kind |-> "none", value |-> << >>]

\* a JSON object is a record of its members; json.loads gives a dict
NodeLine(path, type) ==
    [kind |-> "object",
     obj |-> [struct_type |-> "node", path |-> path, type |-> type, size |-> 1, mtime |-> "m"]]

LsLines ==
    { [kind |-> "blank"], [kind |-> "text"], [kind |-> "number"], [kind |-> "array"],
      [kind |-> "object", obj |-> [struct_type |-> "snapshot", id |-> "abc123"]],
      [kind |-> "object", obj |-> [name |-> "x"]],
      NodeLine(<<"/", "v", "/", "a">>, "dir"),
      NodeLine(<<"/", "v", "/", "a", "/", "b">>, "file"),
      NodeLine(<<"/", "v", "/", "b">>, "file") }

LsPaths == { <<"/">>, <<"/", "v", "/", "a">>, <<"/", "v", "/", "a", "/">> }

\* dict.get(key, default)
DictGet(obj, key, default) == IF key \in DOMAIN obj THEN obj[key] ELSE default

\* lines 250-256: ResticEntry built from a parsed object
EntryOf(obj) ==
    ResticEntry(DictGet(obj, "path", << >>), DictGet(obj, "type", "file"),
                DictGet(obj, "size", 0), DictGet(obj, "mtime", ""))

\* lines 240-257: blank lines and lines that json.loads rejects are skipped;
\* `"struct_type" in obj` raises TypeError for a number, and obj.get raises
\* AttributeError for a list
RECURSIVE LsLoop(_, _)
LsLoop(lines, entries) ==
    IF lines = << >> THEN Returned(entries)
    ELSE LET line == Head(lines)
         IN  IF line.kind \in {"blank", "text"} THEN LsLoop(Tail(lines), entries)
             ELSE IF line.kind = "number" THEN RaisedError("TypeError")
             ELSE IF line.kind = "array" THEN RaisedError("AttributeError")
             ELSE IF "struct_type" \in DOMAIN line.obj /\ line.obj["struct_type"] = "snapshot"
             THEN LsLoop(Tail(lines), entries)
             ELSE LsLoop(Tail(lines), Append(entries, EntryOf(line.obj)))

\* line 262: [e for e in entries if e.path.startswith(normalized)]
RECURSIVE EntriesUnder(_, _)
EntriesUnder(entries, normalized) ==
    IF entries = << >> THEN << >>
    ELSE IF StartsWith(Head(entries).path, normalized)
    THEN <<Head(entries)>> \o EntriesUnder(Tail(entries), normalized)
    ELSE EntriesUnder(Tail(entries), normalized)

\* restic_ls returning the empty list when the listing command fails
restic_ls_EmptyOnFailure(rc, lines, path) ==
    IF rc # 0 THEN Returned(<< >>)
    ELSE LET parsed == LsLoop(lines, << >>)
         IN  IF parsed.kind = "raised" THEN parsed
             ELSE IF path # <<"/">>
             THEN Returned(EntriesUnder(parsed.value, RStripSlash(path)))
             ELSE parsed

\* restic_ls, lines 229-265
restic_ls(rc, lines, path) ==
    IF rc # 0 THEN RaisedError("ValueError")
    ELSE LET parsed == LsLoop(lines, << >>)
         IN  IF parsed.kind = "raised" THEN parsed
             ELSE IF path # <<"/">>
             THEN Returned(EntriesUnder(parsed.value, RStripSlash(path)))
             ELSE parsed

LsInit ==
    /\ ls_rc \in ExitCodes
    /\ ls_lines \in SeqsOf(LsLines, 0, MaxLines)
    /\ ls_path \in LsPaths
    /\ ls_result = NotCalled

LsIdle ==
    /\ ls_rc = 0
    /\ ls_lines = << >>
    /\ ls_path = <<"/">>
    /\ ls_result = NotCalled

--------------------------------------------------------------------------
(* restore.restic_snapshots                                                *)
(*                                                                         *)
(* The standard output of `restic snapshots --json` is empty, text that    *)
(* is not JSON, or a JSON value: a number, an object or an array.          *)

MaxSnapshots == 3

SnapshotId == <<"a", "b", "c", "d", "e", "f", "1", "2", "3", "4">>

\* elements of the array: a snapshot object with all members, one without
\* short_id, paths and tags, one without id, one without time, a number
SnapshotElements ==
    { [kind |-> "object",
       obj |-> [id |-> SnapshotId, short_id |-> <<"s">>, time |-> "t",
                paths |-> <<"/vault">>, tags |-> <<"obsidian">>]],
      [kind |-> "object", obj |-> [id |-> SnapshotId, time |-> "t"]],
      [kind |-> "object", obj |-> [time |-> "t"]],
      [kind |-> "object", obj |-> [id |-> SnapshotId]],
      [kind |-> "number"] }

SnapshotOutputs ==
    { [kind |-> "empty"], [kind |-> "text"], [kind |-> "number"],
      [kind |-> "object", obj |-> [message |-> "m"]] }
    \cup { [kind |-> "array", elems |-> e] : e \in SeqsOf(SnapshotElements, 0, MaxSnapshots) }

\* the ResticSnapshot built from one element, lines 217-223: s["id"] and
\* s["time"] raise KeyError when the member is missing, and TypeError when
\* s is not subscriptable
SnapshotOf(s) ==
    IF s.kind # "object" THEN RaisedError("TypeError")
    ELSE IF "id" \notin DOMAIN s.obj \/ "time" \notin DOMAIN s.obj THEN RaisedError("KeyError")
    ELSE Returned([id |-> s.obj["id"],
                   short_id |-> DictGet(s.obj, "short_id",
                                        SubSeq(s.obj["id"], 1, 8)),
                   time |-> s.obj["time"],
                   paths |-> DictGet(s.obj, "paths", << >>),
                   tags |-> DictGet(s.obj, "tags", << >>)])

\* the list comprehension of lines 216-226: the first element that raises
\* ends it
RECURSIVE SnapshotsOf(_, _)
SnapshotsOf(elems, acc) ==
    IF elems = << >> THEN Returned(acc)
    ELSE LET one == SnapshotOf(Head(elems))
         IN  IF one.kind = "raised" THEN one
             ELSE SnapshotsOf(Tail(elems), Append(acc, one.value))

\* restic_snapshots, lines 200-226: iterating a number raises TypeError,
\* iterating a dict yields its keys, and subscripting a key raises TypeError
restic_snapshots(rc, stdout) ==
    IF rc # 0 \/ stdout.kind = "empty" THEN Returned(<< >>)
    ELSE IF stdout.kind = "text" THEN Returned(<< >>)
    ELSE IF stdout.kind \in {"number", "object"} THEN RaisedError("TypeError")
    ELSE SnapshotsOf(stdout.elems, << >>)

SnapshotsInit ==
    /\ sn_rc \in ExitCodes
    /\ sn_stdout \in SnapshotOutputs
    /\ sn_result = NotCalled

SnapshotsIdle ==
    /\ sn_rc = 0
    /\ sn_stdout = [kind |-> "empty"]
    /\ sn_result = NotCalled

--------------------------------------------------------------------------
(* restore.git_diff_file                                                   *)
(*                                                                         *)
(* The exit code and the output of each git command are the environment's  *)
(* choice.                                                                 *)

MaxDiffLines == 2

DiffExitCodes == {0, 1, 128}

\* what git prints: no line, or some lines of a patch
DiffOutputs == SeqsOf({"+a", "-b"}, 0, MaxDiffLines)

DiffCommits == { Ident(7, "a", 0, "a"), Ident(40, "7", 0, "7") }
DiffFiles == { <<"a.md">>, <<"notes", "/", "b.md">> }

\* the argument list of a command, and what the command answered
DiffCall(argv, rc, stdout) == [argv |-> argv, rc |-> rc, stdout |-> stdout]

\* ["git", "diff", f"{commit}^..{commit}", "--", filepath]
PrimaryDiffArgv(commit, filepath) ==
    <<"git", "diff", commit \o <<"^..">> \o commit, "--", filepath>>

\* ["git", "diff-tree", "-p", "--root", commit, "--", filepath]
RootDiffArgv(commit, filepath) ==
    <<"git", "diff-tree", "-p", "--root", commit, "--", filepath>>

GitDiffInit ==
    /\ gd_commit \in DiffCommits
    /\ gd_filepath \in DiffFiles
    /\ gd_pc = "init"
    /\ gd_calls = << >>
    /\ gd_result = NotCalled

GitDiffIdle ==
    /\ gd_commit = << >>
    /\ gd_filepath = << >>
    /\ gd_pc = "init"
    /\ gd_calls = << >>
    /\ gd_result = NotCalled

\* git_diff_file returning the output of the primary diff whatever its exit
\* code
GitDiffPrimary_NoFallback(rc, stdout) ==
    /\ gd_pc = "init"
    /\ gd_calls' = Append(gd_calls, DiffCall(PrimaryDiffArgv(gd_commit, gd_filepath), rc, stdout))
    /\ gd_result' = Returned(stdout)
    /\ gd_pc' = "done"
    /\ UNCHANGED <<gd_commit, gd_filepath, groupVars, gitlogVars, lsVars, snapVars,
                   markerVars, ds_source, ds_result, ig_path, ig_called, ig_result,
                   debounceVars, restoreVars, backupVars>>

\* git_diff_file, lines 182-187 and 194: the diff against the parent; its
\* output is returned when it exits zero
GitDiffPrimary(rc, stdout) ==
    /\ gd_pc = "init"
    /\ gd_calls' = Append(gd_calls, DiffCall(PrimaryDiffArgv(gd_commit, gd_filepath), rc, stdout))
    /\ IF rc # 0
       THEN /\ gd_pc' = "fallback"
            /\ UNCHANGED gd_result
       ELSE /\ gd_result' = Returned(stdout)
            /\ gd_pc' = "done"
    /\ UNCHANGED <<gd_commit, gd_filepath, groupVars, gitlogVars, lsVars, snapVars,
                   markerVars, ds_source, ds_result, ig_path, ig_called, ig_result,
                   debounceVars, restoreVars, backupVars>>

\* git_diff_file, lines 188-194: the root-commit diff; its output is
\* returned whatever its exit code
GitDiffFallback(rc, stdout) ==
    /\ gd_pc = "fallback"
    /\ gd_calls' = Append(gd_calls, DiffCall(RootDiffArgv(gd_commit, gd_filepath), rc, stdout))
    /\ gd_result' = Returned(stdout)
    /\ gd_pc' = "done"
    /\ UNCHANGED <<gd_commit, gd_filepath, groupVars, gitlogVars, lsVars, snapVars,
                   markerVars, ds_source, ds_result, ig_path, ig_called, ig_result,
                   debounceVars, restoreVars, backupVars>>

--------------------------------------------------------------------------
(* The state markers: written by DebouncedHandler and run_backup, read by  *)
(* HealthState._read_bool and HealthState._read_timestamp                  *)

MaxStamp == 30

\* what _read_timestamp returns: None, or a number
Absent == << >>
Some(v) == <<v>>

\* the value of one decimal digit character, -1 for any other character
DigitValue(c) ==
    CASE c = "0" -> 0 [] c = "1" -> 1 [] c = "2" -> 2 [] c = "3" -> 3 [] c = "4" -> 4
      [] c = "5" -> 5 [] c = "6" -> 6 [] c = "7" -> 7 [] c = "8" -> 8 [] c = "9" -> 9
      [] OTHER -> -1

\* float(text) for a text of decimal digits; Absent (ValueError) for a text
\* with any other character
RECURSIVE ParseDigits(_, _)
ParseDigits(text, acc) ==
    IF text = << >> THEN Some(acc)
    ELSE IF DigitValue(Head(text)) < 0 THEN Absent
    ELSE ParseDigits(Tail(text), 10 * acc + DigitValue(Head(text)))

\* float(text): the empty text is a ValueError as well
ParseFloat(text) == IF text = << >> THEN Absent ELSE ParseDigits(text, 0)

\* HealthState._read_timestamp, lines 72-78
read_timestamp(file) ==
    IF ~file.exists THEN Absent ELSE ParseFloat(Strip(file.text))

\* a reader that accepts every text that is not empty
read_bool_NonEmpty(file) ==
    /\ file.exists
    /\ LowerStr(Strip(file.text)) # << >>

\* HealthState._read_bool, lines 80-86
read_bool(file) ==
    /\ file.exists
    /\ LowerStr(Strip(file.text)) \in { TextTrue, <<"1">>, <<"y", "e", "s">> }

\* (state_dir / "pending_changes").write_text("true" | "false")
WritePending(b) == FileOf(IF b THEN TextTrue ELSE TextFalse)

\* (state_dir / name).write_text(str(int(t)))
WriteStamp(t) == FileOf(DecStr(t))

NotRead == [called |-> FALSE, pending |-> FALSE, stamp |-> Absent,
            pending_file |-> NoFile, stamp_file |-> NoFile]

MarkerIdle ==
    /\ mk_bool = FALSE
    /\ mk_stamp = 0
    /\ mk_pending_file = NoFile
    /\ mk_stamp_file = NoFile
    /\ mk_read = NotRead

\* a fresh state directory: no marker has been written
MarkerInit == MarkerIdle

\* _schedule_backup line 91 writes "true", _trigger_backup line 114 writes
\* "false"
MarkerWritePending(b) ==
    /\ mk_bool' = b
    /\ mk_pending_file' = WritePending(b)
    /\ UNCHANGED <<mk_stamp, mk_stamp_file, mk_read, groupVars, gitlogVars,
                   lsVars, snapVars, diffVars, ds_source, ds_result, ig_path, ig_called,
                   ig_result, debounceVars, restoreVars, backupVars>>

\* _schedule_backup line 90 writes last_change, run_backup lines 302 and 315
\* write last_commit and last_backup
MarkerWriteStamp(t) ==
    /\ mk_stamp' = t
    /\ mk_stamp_file' = WriteStamp(t)
    /\ UNCHANGED <<mk_bool, mk_pending_file, mk_read, groupVars, gitlogVars,
                   lsVars, snapVars, diffVars, ds_source, ds_result, ig_path, ig_called,
                   ig_result, debounceVars, restoreVars, backupVars>>

\* HealthState.to_dict, lines 37-41, reads the markers
MarkerRead ==
    /\ mk_read' = [called |-> TRUE,
                   pending |-> read_bool(mk_pending_file),
                   stamp |-> read_timestamp(mk_stamp_file),
                   pending_file |-> mk_pending_file,
                   stamp_file |-> mk_stamp_file]
    /\ UNCHANGED <<mk_bool, mk_stamp, mk_pending_file, mk_stamp_file, groupVars,
                   gitlogVars, lsVars, snapVars, diffVars, ds_source, ds_result, ig_path,
                   ig_called, ig_result, debounceVars, restoreVars, backupVars>>

ParseIdle ==
    /\ GroupIdle /\ GitLogIdle /\ LsIdle /\ SnapshotsIdle
    /\ GitDiffIdle /\ MarkerIdle

--------------------------------------------------------------------------
(* Specifications: one per component; the other components stay idle       *)

CallDetectSource ==
    /\ ds_result = "none"
    /\ ds_result' = detect_source(ds_source)
    /\ UNCHANGED <<ds_source, ig_path, ig_called, ig_result, parseVars, debounceVars,
                   restoreVars, backupVars>>

InitDetect == DetectInit /\ IgnoreIdle /\ DebounceIdle /\ RestoreIdle /\ BackupIdle /\ ParseIdle
NextDetect == CallDetectSource
SpecDetect == InitDetect /\ [][NextDetect]_vars

CallShouldIgnore ==
    /\ ~ig_called
    /\ ig_called' = TRUE
    /\ ig_result' = should_ignore(ig_path)
    /\ UNCHANGED <<ds_source, ds_result, ig_path, parseVars, debounceVars, restoreVars,
                   backupVars>>

InitIgnore == IgnoreInit /\ DetectIdle /\ DebounceIdle /\ RestoreIdle /\ BackupIdle /\ ParseIdle
NextIgnore == CallShouldIgnore
SpecIgnore == InitIgnore /\ [][NextIgnore]_vars

InitDebounce == DebounceInit /\ DetectIdle /\ IgnoreIdle /\ RestoreIdle /\ BackupIdle /\ ParseIdle
NextDebounce ==
    \/ Tick
    \/ \E event \in Events : OnAnyEventDropped(event)
    \/ \E event \in Events : ScheduleBackupFlags(event)
    \/ ScheduleBackupFiles
    \/ ScheduleBackupTimer
    \/ \E i \in Timers : TimerExpire(i)
    \/ \E i \in Timers : TriggerBackupFlags(i)
    \/ \E i \in Timers : TriggerBackupInvoke(i)
    \/ \E i \in Timers, raises \in BOOLEAN : TriggerBackupReturn(i, raises)
    \/ Cancel
SpecDebounce == InitDebounce /\ [][NextDebounce]_vars

\* A file event delivered early enough for its timer to expire within the
\* modelled time
SubmitEvent ==
    /\ now + debounce_seconds <= MaxTime
    /\ \E event \in Events : ScheduleBackupFlags(event)

\* The handler without cancel(): finitely many events, the clock runs, the
\* observer leaves its critical section, and every timer thread that can
\* take a step eventually does; a callback need not return
NextDebounceLive ==
    \/ Tick
    \/ \E event \in Events : OnAnyEventDropped(event)
    \/ SubmitEvent
    \/ ScheduleBackupFiles
    \/ ScheduleBackupTimer
    \/ \E i \in Timers : TimerExpire(i)
    \/ \E i \in Timers : TriggerBackupFlags(i)
    \/ \E i \in Timers : TriggerBackupInvoke(i)
    \/ \E i \in Timers, raises \in BOOLEAN : TriggerBackupReturn(i, raises)
FairDebounce ==
    /\ WF_vars(Tick)
    /\ WF_vars(ScheduleBackupFiles)
    /\ WF_vars(ScheduleBackupTimer)
    /\ \A i \in Timers : WF_vars(TimerExpire(i))
    /\ \A i \in Timers : WF_vars(TriggerBackupFlags(i))
    /\ \A i \in Timers : WF_vars(TriggerBackupInvoke(i))
SpecDebounceLive == InitDebounce /\ [][NextDebounceLive]_vars /\ FairDebounce

\* GET /ui/files: _route_ui_get with _handle_files, lines 471-488 and
\* 494-505. restic_ls lists the snapshot from the root; its ValueError
\* becomes a 404, any other exception reaches the except Exception of
\* _route_ui_get
HandleFiles(snapshot, rc, lines) ==
    /\ rq_pc = "idle"
    /\ rq_kind' = "files"
    /\ rq_source' = snapshot
    /\ rq_pc' = "done"
    /\ IF snapshot = << >>
       THEN /\ Send(400, "Missing snapshot parameter")
            /\ UNCHANGED <<rq_cmds, rq_raised>>
       ELSE /\ rq_cmds' = Append(rq_cmds, "restic ls")
            /\ LET listing == restic_ls(rc, lines, <<"/">>)
               IN  IF listing.kind = "returned"
                   THEN /\ Send(200, "files")
                        /\ UNCHANGED rq_raised
                   ELSE IF listing.value = "ValueError"
                   THEN /\ Send(404, "error")
                        /\ rq_raised' = "ValueError"
                   ELSE /\ Send(500, "Internal server error")
                        /\ rq_raised' = listing.value
    /\ UNCHANGED <<git_has, restic_has, rq_path, rq_target, fs_dirs, fs_files,
                   notRestoreVars>>

\* GET /ui/log: _handle_log, lines 507-514, with the vault path configured
HandleLog(file) ==
    /\ rq_pc = "idle"
    /\ rq_kind' = "log"
    /\ rq_path' = file
    /\ rq_pc' = "done"
    /\ rq_cmds' = Append(rq_cmds, "git log")
    /\ Send(200, "log")
    /\ UNCHANGED <<git_has, restic_has, rq_source, rq_target, rq_raised, fs_dirs, fs_files,
                   notRestoreVars>>

\* do_POST /ui/restore with any parameters
PostRestore ==
    /\ rq_pc = "idle"
    /\ \E source \in RequestSources, path \in RestorePaths : HandleRestore(source, path)

\* do_GET /ui/preview or /ui/download with any parameters
GetContent ==
    /\ rq_pc = "idle"
    /\ \E kind \in {"preview", "download"}, source \in RequestSources,
          path \in ContentPaths : HandleContent(kind, source, path)

\* do_GET /ui/files with any snapshot parameter and any answer of restic ls
GetFiles ==
    /\ rq_pc = "idle"
    /\ \E snapshot \in FileSnapshots, rc \in ExitCodes, lines \in SeqsOf(LsLines, 0, MaxLines) :
          HandleFiles(snapshot, rc, lines)

\* do_GET /ui/log with or without a file parameter
GetLog ==
    /\ rq_pc = "idle"
    /\ \E file \in ContentPaths : HandleLog(file)

InitRestore == RestoreInit /\ DetectIdle /\ IgnoreIdle /\ DebounceIdle /\ BackupIdle /\ ParseIdle
NextRestore ==
    \/ PostRestore
    \/ GetContent
    \/ GetFiles
    \/ GetLog
    \/ GitRestoreFile
    \/ ResticRestoreFile
    \/ GitShowFile
    \/ ResticShowFile
SpecRestore == InitRestore /\ [][NextRestore]_vars

InitBackup == BackupInit /\ DetectIdle /\ IgnoreIdle /\ DebounceIdle /\ RestoreIdle /\ ParseIdle
NextBackup ==
    \/ BackupTick
    \/ \E changed \in BOOLEAN : RunBackupDetect(changed)
    \/ \E add_rc \in ExitCodes, has_files \in BOOLEAN, lines \in StatLines :
          GitCommitStage(add_rc, has_files, lines)
    \/ \E rc \in ExitCodes : GitCommitCommit(rc)
    \/ \E init_rc \in ExitCodes, backup_rc \in ExitCodes : ResticBackup(init_rc, backup_rc)
    \/ \E rc \in ExitCodes : ResticPrune(rc)
SpecBackup == InitBackup /\ [][NextBackup]_vars

\* the UI projects a listing at a prefix
CallGroup ==
    /\ gr_pc = "init"
    /\ gr_result' = group_entries_by_directory(gr_entries, gr_prefix)
    /\ gr_pc' = "once"
    /\ UNCHANGED <<gr_entries, gr_prefix, gr_again, gitlogVars, lsVars, snapVars, diffVars, markerVars,
                   ds_source, ds_result, ig_path, ig_called, ig_result, debounceVars,
                   restoreVars, backupVars>>

\* the projection is projected again at the same prefix
CallGroupAgain ==
    /\ gr_pc = "once"
    /\ gr_again' = group_entries_by_directory(gr_result, gr_prefix)
    /\ gr_pc' = "twice"
    /\ UNCHANGED <<gr_entries, gr_prefix, gr_result, gitlogVars, lsVars, snapVars, diffVars, markerVars,
                   ds_source, ds_result, ig_path, ig_called, ig_result, debounceVars,
                   restoreVars, backupVars>>

InitGroup ==
    /\ GroupInit /\ GitLogIdle /\ LsIdle /\ SnapshotsIdle /\ GitDiffIdle /\ MarkerIdle
    /\ DetectIdle /\ IgnoreIdle /\ DebounceIdle /\ RestoreIdle /\ BackupIdle
NextGroup == CallGroup \/ CallGroupAgain
SpecGroup == InitGroup /\ [][NextGroup]_vars

\* git_log, git_log_single and git_file_history pass the output to
\* _parse_git_log
CallParseGitLog ==
    /\ ~gl_called
    /\ gl_called' = TRUE
    /\ gl_result' = parse_git_log(GitLogOutput(gl_records))
    /\ UNCHANGED <<gl_records, groupVars, lsVars, snapVars, diffVars, markerVars, ds_source, ds_result,
                   ig_path, ig_called, ig_result, debounceVars, restoreVars, backupVars>>

InitGitLog ==
    /\ GitLogInit /\ GroupIdle /\ LsIdle /\ SnapshotsIdle /\ GitDiffIdle /\ MarkerIdle
    /\ DetectIdle /\ IgnoreIdle /\ DebounceIdle /\ RestoreIdle /\ BackupIdle
NextGitLog == CallParseGitLog
SpecGitLog == InitGitLog /\ [][NextGitLog]_vars

CallResticLs ==
    /\ ls_result = NotCalled
    /\ ls_result' = restic_ls(ls_rc, ls_lines, ls_path)
    /\ UNCHANGED <<ls_rc, ls_lines, ls_path, groupVars, gitlogVars, snapVars, diffVars, markerVars, ds_source,
                   ds_result, ig_path, ig_called, ig_result, debounceVars, restoreVars,
                   backupVars>>

InitLs ==
    /\ LsInit /\ GroupIdle /\ GitLogIdle /\ SnapshotsIdle /\ GitDiffIdle /\ MarkerIdle
    /\ DetectIdle /\ IgnoreIdle /\ DebounceIdle /\ RestoreIdle /\ BackupIdle
NextLs == CallResticLs
SpecLs == InitLs /\ [][NextLs]_vars

CallResticSnapshots ==
    /\ sn_result = NotCalled
    /\ sn_result' = restic_snapshots(sn_rc, sn_stdout)
    /\ UNCHANGED <<sn_rc, sn_stdout, groupVars, gitlogVars, lsVars, diffVars, markerVars, ds_source, ds_result,
                   ig_path, ig_called, ig_result, debounceVars, restoreVars, backupVars>>

InitSnapshots ==
    /\ SnapshotsInit /\ GroupIdle /\ GitLogIdle /\ LsIdle /\ GitDiffIdle /\ MarkerIdle
    /\ DetectIdle /\ IgnoreIdle /\ DebounceIdle /\ RestoreIdle /\ BackupIdle
NextSnapshots == CallResticSnapshots
SpecSnapshots == InitSnapshots /\ [][NextSnapshots]_vars

InitGitDiff ==
    /\ GitDiffInit /\ GroupIdle /\ GitLogIdle /\ LsIdle /\ SnapshotsIdle /\ MarkerIdle
    /\ DetectIdle /\ IgnoreIdle /\ DebounceIdle /\ RestoreIdle /\ BackupIdle
NextGitDiff ==
    \/ \E rc \in DiffExitCodes, stdout \in DiffOutputs : GitDiffPrimary(rc, stdout)
    \/ \E rc \in DiffExitCodes, stdout \in DiffOutputs : GitDiffFallback(rc, stdout)
SpecGitDiff == InitGitDiff /\ [][NextGitDiff]_vars

InitMarkers ==
    /\ MarkerInit /\ GroupIdle /\ GitLogIdle /\ LsIdle /\ SnapshotsIdle /\ GitDiffIdle
    /\ DetectIdle /\ IgnoreIdle /\ DebounceIdle /\ RestoreIdle /\ BackupIdle
NextMarkers ==
    \/ \E b \in BOOLEAN : MarkerWritePending(b)
    \/ \E t \in 0..MaxStamp : MarkerWriteStamp(t)
    \/ MarkerRead
SpecMarkers == InitMarkers /\ [][NextMarkers]_vars

--------------------------------------------------------------------------
(* Claims                                                                  *)

\* The classification of identifiers that the claims state
ClaimedSourceType(s) ==
    LET n == Len(s)
        hex == \A i \in DOMAIN s : s[i] \in HexChars
    IN  IF hex /\ (n = 40 \/ n = 7 \/ (n >= 9 /\ n <= 39)) THEN "git"
        ELSE IF hex /\ n = 8 THEN "ambiguous"
        ELSE "restic"

\* Every scheduled event came less than debounce_seconds after the previous one
AllClose ==
    \A k \in 2..Len(evTimes) : evTimes[k] - evTimes[k - 1] < debounce_seconds

\* No thread of the handler has anything left to do
Quiescent ==
    /\ obs_pc = "idle"
    /\ \A i \in Timers : tstate[i] \in {"unborn", "cancelled", "done"}

C2_FullQuietPeriod ==
    \A k \in DOMAIN callLog :
        callLog[k].time - callLog[k].last_event >= debounce_seconds

\* C3: once cancel() has returned, no timer started before that cancel
\* invokes on_changes.
C3_NoCallAfterCancel ==
    \A k \in DOMAIN callLog : callLog[k].cancels = tborn[callLog[k].timer]

\* The target is the vault root or below it, segment by segment
InsideVault(target) ==
    /\ Len(target) >= 1
    /\ target[1] = <<"vault">>

\* C4: a restore request whose resolved target is neither the vault root nor
\* a descendant of it is answered 400 without any retrieval command, mkdir
\* or write, and no file is ever written outside the vault root.
C4_OutsideTargetRejected ==
    /\ ( /\ rq_kind = "restore"
         /\ rq_source # << >>
         /\ rq_path # << >>
         /\ ~InsideVault(ResolvedTarget(rq_path)) )
       => /\ rq_cmds = << >>
          /\ fs_dirs = {}
          /\ fs_files = {}
          /\ rq_pc = "done" => rq_status = 400
    /\ \A f \in fs_files : InsideVault(f)

C6_DetectSourceTable ==
    ds_result # "none" => ds_result = ClaimedSourceType(ds_source)

C6_Witness ==
    /\ ds_result = "git"
    /\ Len(ds_source) = 7

\* C7: _should_ignore(p) is true iff some whole segment of p is .git or
\* .trash, or the trailing segments of p are exactly .obsidian/workspace.json
\* or .obsidian/workspace-mobile.json.
C7_Expected(p) ==
    LET parts == SplitSlash(p)
        n == Len(parts)
    IN  \/ \E i \in 1..n : parts[i] \in { <<".git">>, <<".trash">> }
        \/ /\ n >= 2
           /\ parts[n - 1] = <<".obsidian">>
           /\ parts[n] \in { <<"workspace.json">>, <<"workspace-mobile.json">> }

C7_SegmentMatchOnly ==
    ig_called => (ig_result = C7_Expected(ig_path))

\* A command of the snapshot or prune step has been run
ResticRan == \E k \in DOMAIN bk_cmds :
                 bk_cmds[k] \in {"restic snapshots", "restic backup", "restic forget"}

MarkersUntouched ==
    /\ last_commit = bk_old.last_commit
    /\ last_backup = bk_old.last_backup

\* C8: with no uncommitted changes run_backup returns success=true,
\* commit_created=false, backup_created=false, runs no staging, commit,
\* snapshot or prune command and leaves both markers unchanged.
C8_NoChangesNoEffect ==
    bk_dirty = "clean" =>
        /\ bk_pc = "done"
        /\ bk_result.kind = "BackupResult"
        /\ bk_result.success
        /\ ~bk_result.commit_created
        /\ ~bk_result.backup_created
        /\ bk_cmds = <<"git status">>
        /\ MarkersUntouched

C8_Witness ==
    /\ bk_dirty = "clean"
    /\ bk_pc = "done"
    /\ bk_result.success
    /\ last_commit.exists
    /\ last_backup.exists

\* C9: the snapshot step (restic_backup) is started only if the commit step
\* of the same run succeeded; a run in which no commit was made never takes
\* a snapshot or writes the last_backup marker.
C9_SnapshotOnlyAfterCommit ==
    /\ ResticRan => commit_success
    /\ bk_commit_rc # 0 =>
          /\ \A k \in DOMAIN bk_cmds : bk_cmds[k] # "restic backup"
          /\ last_backup = bk_old.last_backup

\* C10: when staging produced staged files and `git commit` exits non-zero,
\* then for any summary text run_backup returns success=false,
\* commit_created=false, backup_created=false with a commit-failed error,
\* runs neither the snapshot nor the prune step and writes neither marker.
C10_CommitFailureIsHard ==
    (bk_staged /\ bk_commit_rc > 0) =>
        /\ bk_pc = "done"
        /\ bk_result.kind = "BackupResult"
        /\ ~bk_result.success
        /\ ~bk_result.commit_created
        /\ ~bk_result.backup_created
        /\ bk_result.error = "Git commit failed"
        /\ ~ResticRan
        /\ MarkersUntouched


\* restic_backup returned False in this run
SnapshotFailed == bk_hist.snapshot = "failed"

\* no git command was run after the commit step
NoGitAfterCommit ==
    \A k \in DOMAIN bk_cmds :
        bk_cmds[k] \in {"git commit", "git reset"} =>
            \A m \in (k + 1)..Len(bk_cmds) :
                bk_cmds[m] \in {"restic snapshots", "restic backup", "restic forget"}

\* C11: when the commit step succeeded and the snapshot step then failed
\* (backup command failed or store not initialized), run_backup returns
\* success=false, commit_created=true, backup_created=false; the last_commit
\* marker has been written, the last_backup marker has not, prune was not
\* run and nothing undid the commit.
C11_PartialSuccess ==
    (commit_success /\ SnapshotFailed) =>
        /\ bk_pc = "done"
        /\ bk_result.kind = "BackupResult"
        /\ ~bk_result.success
        /\ bk_result.commit_created
        /\ ~bk_result.backup_created
        /\ last_commit.exists /\ last_commit # bk_old.last_commit
        /\ last_backup = bk_old.last_backup
        /\ bk_hist.prunes = 0
        /\ NoGitAfterCommit

C11_Witness ==
    /\ bk_commit_rc = 0
    /\ bk_hist.init = 0
    /\ bk_hist.backup = 1
    /\ bk_pc = "done"
    /\ bk_result.commit_created
    /\ ~bk_result.success

\* C12: a run whose snapshot step succeeded runs the prune step exactly
\* once afterwards and returns success=true, backup_created=true whatever
\* the prune command's exit code; prune is never run in a run whose snapshot
\* step did not succeed.
C12_PruneNonFatal ==
    /\ bk_hist.prunes <= 1
    /\ bk_hist.prunes = 1 => bk_hist.snapshot = "ok"
    /\ (bk_hist.snapshot = "ok" /\ bk_pc # "prune") =>
          /\ bk_pc = "done"
          /\ bk_hist.prunes = 1
          /\ bk_cmds[Len(bk_cmds)] \in {"restic forget", "restic snapshots"}
          /\ bk_result.kind = "BackupResult"
          /\ bk_result.success
          /\ bk_result.backup_created

C12_Witness ==
    /\ bk_hist.snapshot = "ok"
    /\ bk_hist.prune = 1
    /\ bk_pc = "done"
    /\ bk_result.success

\* C13: for every combination of exit codes of the commands of a backup run
\* run_backup returns a BackupResult instead of raising, and a non-zero exit
\* of the staging, commit or snapshot command yields success=false with
\* error set.
C13_AlwaysAResult ==
    bk_pc = "done" =>
        /\ bk_result.kind = "BackupResult"
        /\ (bk_hist.add > 0 \/ bk_commit_rc > 0 \/ bk_hist.init > 0 \/ bk_hist.backup > 0) =>
              (~bk_result.success /\ bk_result.error # "None")


\* C14: an exception raised by on_changes is caught inside _trigger_backup
\* and never reaches the timer thread; afterwards the handler is idle
\* (pending false, marker "false") until the next event, and an event that
\* is pending always has a live timer that will fire its callback.
C14_CallbackExceptionContained ==
    /\ \A i \in Timers : tstate[i] # "crashed"
    /\ \A k \in DOMAIN callLog :
          (callLog[k].timer \in cb_raised /\ Len(evTimes) = callLog[k].seen) =>
              /\ ~pending
              /\ pending_changes = FileOf(TextFalse)
    /\ (cb_raised # {} /\ cancels = 0 /\ pending /\ lock = "free") =>
          /\ timer # 0
          /\ tstate[timer] \in {"waiting", "expired"}

C14_Witness ==
    \E k, m \in DOMAIN callLog :
        /\ callLog[k].timer \in cb_raised
        /\ k < m
        /\ callLog[m].seen > callLog[k].seen
        /\ cancels = 0


\* a directory that the list implies: a proper ancestor of a listed path
ImpliedDir(p, entries) ==
    \E k \in DOMAIN entries :
        /\ Len(entries[k].path) > Len(p)
        /\ StartsWith(entries[k].path, p \o <<"/">>)

\* no path occurs with two different kinds, listed or implied
OneKindPerPath(entries) ==
    \A i \in DOMAIN entries :
        /\ \A j \in DOMAIN entries :
              entries[i].path = entries[j].path => entries[i].type = entries[j].type
        /\ entries[i].type # "dir" => ~ImpliedDir(entries[i].path, entries)

\* C15: for every prefix and every entry list in which no path occurs with
\* two different kinds, group_entries_by_directory returns no two entries
\* with the same path, also when a path is listed more than once.
C15_NoDuplicateChild ==
    (gr_pc # "init" /\ OneKindPerPath(gr_entries)) =>
        \A i, j \in DOMAIN gr_result :
            i # j => gr_result[i].path # gr_result[j].path

\* C16: in every output of group_entries_by_directory all directory entries
\* come before all file entries, and within each of the two groups the
\* lower-cased paths are in non-decreasing order.
C16_DirsFirstSorted ==
    gr_pc # "init" =>
        \A i, j \in DOMAIN gr_result :
            i < j =>
                /\ ~(gr_result[i].type # "dir" /\ gr_result[j].type = "dir")
                /\ (gr_result[i].type = "dir") = (gr_result[j].type = "dir") =>
                      ~StrLess(LowerStr(gr_result[j].path), LowerStr(gr_result[i].path))

C16_Witness ==
    /\ gr_pc # "init"
    /\ \E i, j, k \in DOMAIN gr_result :
          /\ i < j /\ j < k
          /\ gr_result[i].type = "dir"
          /\ gr_result[j].type = "file" /\ gr_result[k].type = "file"
          /\ gr_result[k].path = <<"/", "v", "/", "B">>
          /\ gr_entries[1].path = <<"/", "v", "/", "B">>

C18_OneCommitPerRecord ==
    gl_called => gl_result = gl_records

\* a line that is a record of the listing: a JSON object other than the
\* snapshot metadata
IsListedRecord(line) ==
    /\ line.kind = "object"
    /\ ~("struct_type" \in DOMAIN line.obj /\ line.obj["struct_type"] = "snapshot")

RECURSIVE ListedEntries(_)
ListedEntries(lines) ==
    IF lines = << >> THEN << >>
    ELSE IF IsListedRecord(Head(lines))
    THEN <<EntryOf(Head(lines).obj)>> \o ListedEntries(Tail(lines))
    ELSE ListedEntries(Tail(lines))

\* every line is one the listing is expected to hold: blank, text that
\* does not parse, or a JSON object
RecordsOrUnparseable(lines) ==
    \A k \in DOMAIN lines : lines[k].kind \in {"blank", "text", "object"}

WellFormedSnapshots(stdout) ==
    /\ stdout.kind = "array"
    /\ \A k \in DOMAIN stdout.elems :
          /\ stdout.elems[k].kind = "object"
          /\ {"id", "time"} \subseteq DOMAIN stdout.elems[k].obj

\* C20: restic_snapshots never raises; when the listing command exits
\* non-zero, prints nothing, or prints output that is not a well-formed
\* snapshot array, it returns the empty list.
C20_SnapshotsNeverRaise ==
    sn_result # NotCalled =>
        /\ sn_result.kind = "returned"
        /\ (sn_rc # 0 \/ ~WellFormedSnapshots(sn_stdout)) => sn_result.value = << >>

\* The last git command git_diff_file ran
LastDiffCall == gd_calls[Len(gd_calls)]

\* C21: git_diff_file runs the root-commit diff exactly when the primary diff
\* exited non-zero, runs at most two commands, never raises, and returns the
\* output of the last command it ran: the empty text when the file is
\* unchanged, and when the primary diff failed and the fallback printed
\* nothing.
C21_FallbackIffPrimaryFails ==
    /\ Len(gd_calls) <= 2
    /\ gd_result.kind # "raised"
    /\ gd_pc # "done" => gd_result = NotCalled
    /\ gd_pc = "done" =>
        /\ Len(gd_calls) >= 1
        /\ gd_calls[1].argv = PrimaryDiffArgv(gd_commit, gd_filepath)
        /\ Len(gd_calls) = 2 <=> gd_calls[1].rc # 0
        /\ Len(gd_calls) = 2 => gd_calls[2].argv = RootDiffArgv(gd_commit, gd_filepath)
        /\ gd_result = Returned(LastDiffCall.stdout)
        /\ LastDiffCall.stdout = << >> => gd_result.value = << >>

C21_Witness ==
    /\ gd_pc = "done"
    /\ Len(gd_calls) = 2
    /\ gd_calls[1].rc = 128
    /\ gd_calls[1].stdout # << >>
    /\ gd_calls[2].rc # 0
    /\ gd_calls[2].stdout = << >>
    /\ gd_result = Returned(<< >>)

\* C27, as the code has it: an identifier of length 7 is classified 'git'
\* when it is made only of lowercase hex digits and 'restic' otherwise.
C27_SevenHexIsGit ==
    (ds_result # "none" /\ Len(ds_source) = 7) =>
        ds_result = (IF AllHex(ds_source) THEN "git" ELSE "restic")

\* C27, as stated: every identifier of length 7 is classified 'restic',
\* a 7-character identifier made only of hex digits included.
C27_SevenIsRestic ==
    (ds_result # "none" /\ Len(ds_source) = 7) => ds_result = "restic"

C27_Witness ==
    /\ ds_source = Ident(7, "a", 0, "a")
    /\ AllHex(ds_source)
    /\ ds_result = "git"

\* C24: the markers round-trip. The text the debouncer writes for a boolean b
\* is read back by _read_bool as b, the decimal text a writer puts in
\* last_change, last_commit or last_backup for a time t is read back by
\* _read_timestamp as t, and a marker never written reads as false
\* (boolean) or as absent (timestamp).
C24_MarkersRoundTrip ==
    mk_read.called =>
        /\ mk_read.pending_file = NoFile => mk_read.pending = FALSE
        /\ mk_read.stamp_file = NoFile => mk_read.stamp = Absent
        /\ \A b \in BOOLEAN :
              mk_read.pending_file = WritePending(b) => mk_read.pending = b
        /\ \A t \in 0..MaxStamp :
              mk_read.stamp_file = WriteStamp(t) => mk_read.stamp = Some(t)

C24_Witness ==
    /\ mk_read.called
    /\ mk_read.pending_file = WritePending(FALSE)
    /\ mk_read.pending = FALSE
    /\ mk_read.stamp_file = WriteStamp(MaxStamp)
    /\ mk_read.stamp = Some(MaxStamp)

\* The handler of the request has returned or an exception has left it
RequestOver == rq_pc \in {"done", "raised"}

\* The request lacks a required parameter or names an invalid restore target
BadRequest ==
    \/ rq_kind \in {"restore", "preview", "download"} /\ (rq_source = << >> \/ rq_path = << >>)
    \/ rq_kind = "files" /\ rq_source = << >>
    \/ rq_kind = "restore" /\ ~resolve_restore_target(rq_path).ok

\* C22: every /ui request (GET files, log, preview, download; POST restore)
\* receives exactly one response: 400 for a missing parameter or an invalid
\* restore target, 404 when the history source reports NotFound, 500 for
\* any other failure, 200 otherwise.
C22_ExactlyOneResponse ==
    /\ rq_responses <= 1
    /\ RequestOver =>
        /\ rq_responses = 1
        /\ rq_status = (IF BadRequest THEN 400
                        ELSE IF rq_raised \in {"git", "restic", "ValueError"} THEN 404
                        ELSE IF rq_raised # "none" THEN 500
                        ELSE 200)

\* C23: a restore with an ambiguous (8-hex) identifier tries git_restore_file
\* first and restic_restore_file only after git raised NotFound; the success
\* response names the source that supplied the content, and NotFound from
\* both sources is answered 404.
C23_AmbiguousRestoreOrder ==
    ( /\ rq_kind = "restore"
      /\ detect_source(rq_source) = "ambiguous"
      /\ rq_cmds # << >> ) =>
        /\ rq_cmds[1] = "git show"
        /\ Len(rq_cmds) <= 2
        /\ Len(rq_cmds) = 2 => (rq_cmds[2] = "restic dump" /\ ~git_has)
        /\ rq_pc = "done" =>
            /\ git_has => (rq_cmds = <<"git show">> /\ rq_status = 200 /\ rq_body = "git commit")
            /\ (~git_has /\ restic_has) =>
                  /\ rq_cmds = <<"git show", "restic dump">>
                  /\ rq_status = 200
                  /\ rq_body = "restic snapshot"
            /\ (~git_has /\ ~restic_has) =>
                  /\ rq_cmds = <<"git show", "restic dump">>
                  /\ rq_status = 404
        /\ rq_status = 200 => rq_target \in fs_files

C23_Witness ==
    /\ rq_kind = "restore"
    /\ detect_source(rq_source) = "ambiguous"
    /\ rq_pc = "done"
    /\ rq_cmds = <<"git show", "restic dump">>
    /\ rq_status = 200
    /\ rq_body = "restic snapshot"
    /\ rq_target \in fs_files

\* The timers that are armed: started, not cancelled, not expired
Armed == { i \in Timers : tstate[i] = "waiting" }

\* The lock is held by the thread that is inside its `with self._lock` block
LockHeldByOwner ==
    /\ lock = "observer" <=> obs_pc \in {"files", "timer"}
    /\ lock = "timer" <=> \E i \in Timers : tstate[i] = "locked"
    /\ Cardinality({ i \in Timers : tstate[i] = "locked" }) <= 1

\* C25: on_changes is invoked with the lock released, so an event that
\* arrives during the callback is processed to completion; every write of
\* the timer reference and of the pending flag is made by the thread that
\* holds the lock.
C25_CallbackOutsideLock ==
    /\ [](LockHeldByOwner)
    /\ [][Len(callLog') > Len(callLog) => lock' = "free"]_vars
    /\ [][(timer' # timer \/ pending' # pending) =>
            \/ lock = "free"
            \/ lock = "observer" /\ obs_pc' # obs_pc
            \/ lock = "timer" /\ \E i \in Timers : tstate[i] = "locked" /\ tstate'[i] # "locked"]_vars

C25_Witness ==
    /\ Len(callLog) >= 1
    /\ tstate[callLog[Len(callLog)].timer] = "callback"
    /\ Len(evTimes) > callLog[Len(callLog)].seen
    /\ obs_pc = "idle"
    /\ lock = "free"
    /\ pending
    /\ timer \in Armed

\* C26: cancel() changes nothing but the timer, with or without a timer and
\* when repeated: the pending flag, the event count, last_change and
\* pending_changes stay as they were, the timer reference is cleared and
\* only the referenced timer, if still waiting, is cancelled.
C26_CancelOnlyTimer ==
    [][cancels' # cancels =>
        /\ cancels' = cancels + 1
        /\ pending' = pending
        /\ event_count' = event_count
        /\ last_event_time' = last_event_time
        /\ last_change' = last_change
        /\ pending_changes' = pending_changes
        /\ callLog' = callLog
        /\ timer' = 0
        /\ \A i \in Timers :
              tstate'[i] = IF i = timer /\ tstate[i] = "waiting" THEN "cancelled"
                           ELSE tstate[i]]_vars

C26_Witness ==
    /\ cancels = 2
    /\ timer = 0
    /\ pending
    /\ event_count = 1
    /\ pending_changes = FileOf(TextTrue)
    /\ \E i \in Timers : tstate[i] = "cancelled"
    /\ callLog = << >>

\* C28: at most one debounce timer is armed at any moment, and it is the
\* one the handler references; a new timer is started by the observer under
\* the lock in the same step that cancels the one it replaces.
C28_AtMostOneArmed ==
    /\ [](Cardinality(Armed) <= 1 /\ \A i \in Armed : timer = i)
    /\ [][\A i \in Timers :
            (tstate[i] = "unborn" /\ tstate'[i] = "waiting") =>
                /\ lock = "observer"
                /\ timer' = i
                /\ timer # 0 => tstate'[timer] # "waiting"]_vars

C28_Witness ==
    /\ cancels = 0
    /\ \E i \in Timers : tstate[i] = "cancelled"
    /\ Cardinality(Armed) = 1
    /\ timer \in Armed

\* The timers whose firing invoked on_changes
InvokedTimers == { callLog[k].timer : k \in DOMAIN callLog }

\* C29: a timer that fires while the pending flag is false writes no marker
\* and does not invoke on_changes, and the number of on_changes invocations
\* never exceeds the number of false-to-true transitions of the pending flag.
C29_NoCallWithoutPending ==
    /\ [](Len(callLog) <= Len(batchLog))
    /\ [][\A i \in Timers :
            (tstate[i] = "expired" /\ tstate'[i] # "expired" /\ ~pending) =>
                /\ tstate'[i] = "done"
                /\ callLog' = callLog
                /\ last_change' = last_change
                /\ pending_changes' = pending_changes
                /\ pending' = pending]_vars

C29_Witness ==
    /\ \E i \in Timers : tstate[i] = "done" /\ i \notin InvokedTimers
    /\ Len(callLog) = 1
    /\ Len(batchLog) = 1
    /\ ~pending
    /\ pending_changes = FileOf(TextFalse)

\* C30: within one batch only the first non-ignored event writes
\* last_change and pending_changes; a later event restarts the timer and
\* leaves the markers as they are, so last_change holds the time of the
\* first event of the batch.
C30_FirstEventWritesMarkers ==
    /\ [][(obs_pc = "files" /\ obs_pc' = "timer") =>
            IF was_pending
            THEN last_change' = last_change /\ pending_changes' = pending_changes
            ELSE /\ last_change' = FileOf(DecStr(last_event_time))
                 /\ pending_changes' = FileOf(TextTrue)]_vars
    /\ [][(obs_pc = "timer" /\ obs_pc' = "idle") =>
            /\ timer' # timer
            /\ timer' \in Timers
            /\ tstate'[timer'] = "waiting"
            /\ tdeadline'[timer'] = last_event_time + debounce_seconds
            /\ last_change' = last_change
            /\ pending_changes' = pending_changes]_vars
    /\ []((obs_pc # "files" /\ batchLog # << >>) =>
            last_change = FileOf(DecStr(batchLog[Len(batchLog)])))

C30_Witness ==
    /\ Len(batchLog) = 1
    /\ Len(evTimes) >= 2
    /\ evTimes[Len(evTimes)] > batchLog[1]
    /\ obs_pc = "idle"
    /\ pending
    /\ callLog = << >>
    /\ last_change = FileOf(DecStr(batchLog[1]))
    /\ pending_changes = FileOf(TextTrue)

\* C31: a directory event, or a file event whose path the ignore policy
\* rejects, changes no handler state: no timer is created, cancelled or
\* restarted, the pending flag, the last-event time and the event count are
\* unchanged, and no marker is written.
C31_DroppedEventNoEffect ==
    [][dropped' # dropped =>
        /\ timer' = timer
        /\ tstate' = tstate
        /\ tdeadline' = tdeadline
        /\ pending' = pending
        /\ last_event_time' = last_event_time
        /\ event_count' = event_count
        /\ last_change' = last_change
        /\ pending_changes' = pending_changes
        /\ lock' = lock
        /\ callLog' = callLog]_vars

C31_Witness ==
    /\ dropped
    /\ evTimes = << >>
    /\ now > 0
    /\ timer = 0
    /\ ~pending
    /\ event_count = 0
    /\ pending_changes = NoFile
    /\ last_change = NoFile

\* C37: whenever the handler's lock is free, the pending_changes marker, as
\* the health reader reads it, equals the in-memory pending flag; a marker
\* never written reads false.
C37_MarkerMatchesFlag ==
    lock = "free" => read_bool(pending_changes) = pending

C37_Witness ==
    /\ lock = "free"
    /\ pending
    /\ read_bool(pending_changes)
    /\ Len(callLog) >= 1
    /\ cancels >= 1

\* The timers whose on_changes call is in progress
InCallback == { i \in Timers : tstate[i] = "callback" }

\* C39: at most one invocation of on_changes is in progress at any time.
C39_OneCallbackAtATime ==
    Cardinality(InCallback) <= 1

\* The k-th scheduled event has been followed by an on_changes invocation
\* that started after it
Served(k) == \E j \in DOMAIN callLog : callLog[j].seen >= k

\* C38: no change is lost. With finitely many events, no cancel() and
\* timers that expire, every non-ignored event is eventually followed by an
\* on_changes invocation that starts after it, and the handler ends with
\* pending false and the pending_changes marker 'false'; events submitted
\* while a callback is running are included.
C38_NoChangeLost ==
    /\ \A k \in 1..MaxEvents : (Len(evTimes) >= k) ~> Served(k)
    /\ <>[](/\ ~pending
            /\ lock = "free"
            /\ evTimes # << >> => pending_changes = FileOf(TextFalse))

C38_Witness ==
    /\ Len(evTimes) = 2
    /\ Len(callLog) = 2
    /\ callLog[1].seen = 1
    /\ callLog[2].seen = 2
    /\ evTimes[2] >= callLog[1].time
    /\ tstate[callLog[1].timer] = "callback"
    /\ ~pending
    /\ pending_changes = FileOf(TextFalse)

\* A command of the run's command list
Ran(cmd) == \E k \in DOMAIN bk_cmds : bk_cmds[k] = cmd

\* The run wrote the marker
WroteLastCommit == last_commit # bk_old.last_commit
WroteLastBackup == last_backup # bk_old.last_backup

\* C32: run_backup writes last_commit exactly when the commit phase of the
\* run succeeded (git_commit returned True) and last_backup exactly when the
\* snapshot phase succeeded (restic_backup returned True), each before the
\* next phase starts; a run that ends before a phase succeeds leaves that
\* phase's marker as it was.
C32_MarkersFollowPhases ==
    /\ WroteLastCommit <=> commit_success
    /\ WroteLastBackup <=> bk_hist.snapshot = "ok"
    /\ (Ran("restic snapshots") /\ commit_success) => WroteLastCommit
    /\ bk_hist.prunes > 0 => WroteLastBackup
    /\ (bk_pc = "done" /\ ~commit_success) => last_commit = bk_old.last_commit
    /\ (bk_pc = "done" /\ bk_hist.snapshot # "ok") => last_backup = bk_old.last_backup

C32_Witness ==
    /\ bk_pc = "done"
    /\ ~dry_run
    /\ bk_commit_rc = 0
    /\ WroteLastCommit
    /\ WroteLastBackup
    /\ bk_result.success
    /\ bk_old.last_commit = FileOf(DecStr(0))

\* Staging has run and left no staged file
NothingStaged == bk_hist.add = 0 /\ ~bk_staged /\ bk_pc \notin {"idle", "stage"}

\* C33: when staging leaves no staged files, git_commit creates no commit
\* and run_backup does not treat it as a commit failure: commit_created is
\* false, the last_commit marker is not written, and the result never
\* carries the commit-failed error.
C33_NothingStagedIsSoft ==
    NothingStaged =>
        /\ ~Ran("git commit")
        /\ ~Ran("git reset")
        /\ ~commit_success
        /\ ~WroteLastCommit
        /\ Ran("restic snapshots") \/ bk_pc = "snapshot"
        /\ bk_pc = "done" =>
            /\ bk_result.kind = "BackupResult"
            /\ ~bk_result.commit_created
            /\ bk_result.error # "Git commit failed"

C33_Witness ==
    /\ NothingStaged
    /\ bk_pc = "done"
    /\ bk_result.success
    /\ bk_result.backup_created
    /\ ~bk_result.commit_created
    /\ ~WroteLastCommit
    /\ WroteLastBackup

\* C34: with dry_run set a backup run never executes git commit, restic
\* backup or restic forget, and after staging it resets the index so that
\* nothing stays staged.
C34_DryRunLeavesNoTrace ==
    dry_run =>
        /\ ~Ran("git commit")
        /\ ~Ran("restic backup")
        /\ ~Ran("restic forget")
        /\ (bk_staged /\ bk_pc \in {"snapshot", "prune", "done"}) => Ran("git reset")
        /\ bk_pc \in {"snapshot", "prune", "done"} /\ bk_result.kind # "raised"
              => ~IndexStaged

\* the explicit directory entries of the list at exactly normalized + name
ExplicitDirs(entries, prefix) ==
    { entries[k] : k \in { i \in DOMAIN entries :
          /\ entries[i].type = "dir"
          /\ StartsWith(entries[i].path, Normalized(prefix))
          /\ Len(entries[i].path) > Len(Normalized(prefix))
          /\ FirstSlash(SubSeq(entries[i].path, Len(Normalized(prefix)) + 1,
                               Len(entries[i].path))) = 0 } }

\* C35: for every entry list and every prefix, in whatever order the
\* entries come, an explicit directory entry at exactly prefix/name is the
\* output entry for name, with its own mtime, and an output entry is a
\* synthesized one (size 0, empty mtime) only when the list has no explicit
\* directory entry for its path.
C35_ExplicitDirWins ==
    gr_pc # "init" =>
        /\ \A d \in ExplicitDirs(gr_entries, gr_prefix) :
              \E k \in DOMAIN gr_result : gr_result[k] = d
        /\ \A k \in DOMAIN gr_result :
              gr_result[k].mtime = "" =>
                  \A d \in ExplicitDirs(gr_entries, gr_prefix) : d.path # gr_result[k].path

\* the child names of the prefix that the list has: the segment that follows
\* the segments of the prefix in a path that is longer than the prefix
ChildNames(entries, prefix) ==
    LET ps == SplitSlash(prefix)
    IN  { SplitSlash(entries[k].path)[Len(ps) + 1] :
              k \in { i \in DOMAIN entries :
                        /\ Len(SplitSlash(entries[i].path)) > Len(ps)
                        /\ SubSeq(SplitSlash(entries[i].path), 1, Len(ps)) = ps } }

\* C36: the output of group_entries_by_directory(E, p) has an entry for the
\* child name c exactly when some entry of E has the path p/c or a path
\* below p/c, and every output path is p plus one segment; the entry for p
\* itself, entries outside p and entries that share p only as a string
\* prefix contribute nothing.
C36_ImmediateChildrenOnly ==
    gr_pc # "init" =>
        { gr_result[k].path : k \in DOMAIN gr_result }
            = { SlashJoin(Append(SplitSlash(gr_prefix), c)) :
                    c \in ChildNames(gr_entries, gr_prefix) }

C36_Witness ==
    /\ gr_pc # "init"
    /\ gr_prefix = <<"/", "v">>
    /\ \E i, j, k \in DOMAIN gr_entries :
          /\ gr_entries[i].path = <<"/", "v">>
          /\ gr_entries[j].path = <<"/", "v", "x">>
          /\ gr_entries[k].path = <<"/", "v", "/", "a", "/", "b">>
    /\ Len(gr_result) = 1
    /\ gr_result[1].path = <<"/", "v", "/", "a">>

\* C40: a restore request whose content retrieval ends in NotFound, from
\* git, from the backup store, or from both for an ambiguous identifier,
\* leaves the file system as it was: no directory has been created and no
\* file has been created or written.
C40_NotFoundLeavesFilesystem ==
    (rq_kind = "restore" /\ rq_pc = "done" /\ rq_raised \in {"git", "restic"}) =>
        /\ rq_status = 404
        /\ fs_dirs = {}
        /\ fs_files = {}

C40_Witness ==
    /\ rq_kind = "restore"
    /\ rq_pc = "done"
    /\ detect_source(rq_source) = "ambiguous"
    /\ rq_cmds = <<"git show", "restic dump">>
    /\ rq_raised = "restic"
    /\ rq_status = 404
    /\ Len(rq_target) > Len(VaultSegs) + 1
    /\ fs_dirs = {}
    /\ fs_files = {}

==========================================================================
